---- MODULE Spec2Model ----
(***************************************************************************)
(* State-machine model of the chat server (chat-server/src/server.rs):     *)
(* the shared registry (two maps behind two RwLocks, an atomic connection  *)
(* counter, an atomic id generator), the accept loop with admission        *)
(* control, the per-connection handler (handshake, active select loop,     *)
(* cleanup), the broadcast channel and the shutdown watch channel.         *)
(***************************************************************************)
EXTENDS Integers, Sequences, FiniteSets, TLC

(***************************************************************************)
(* Bounds of the model.                                                    *)
(***************************************************************************)
\* connections the model lets the listener accept over a run
NumConns == 3
\* the admission limit (constants.rs sets 100; scaled down so that the limit is hit)
MAX_CONNECTIONS == 2
\* client messages (Chat, Ping, repeated Join) the active sessions read over a run
MaxClientMsgs == 1
\* concurrent callers of try_add_connection in SpecAdmission
NumCallers == 3
\* ids the registry hands out in SpecRegistry
MaxIds == 3
\* capacity of the broadcast channel (server.rs sets 256; scaled down so that lag happens)
BroadcastCapacity == 2
\* HEARTBEAT_TIMEOUT in clock ticks (constants.rs sets 30 s)
HeartbeatTicks == 2

(***************************************************************************)
(* Program constants.                                                      *)
(***************************************************************************)
MAX_USERNAME_LEN == 20
MAX_MESSAGE_LEN == 4096

Sessions == 1 .. NumConns
\* caller 0 is the accept loop of ChatServer::run; the others exist only in SpecAdmission
Callers == 0 .. NumCallers

\* usernames are sequences of characters
LongName == [i \in 1 .. (MAX_USERNAME_LEN + 1) |-> "x"]
InputNames == {<<"a">>, <<"b">>, <<>>, LongName}
\* chat contents are represented by their length in bytes
InputContents == {5, MAX_MESSAGE_LEN + 1}

VARIABLES
    users,            \* SharedState.users: user_id -> username
    usernames,        \* SharedState.usernames: username -> user_id
    connection_count, \* SharedState.connection_count
    next_user_id,     \* SharedState.next_user_id
    usersLock,        \* holder of users' write lock (0: free)
    usernamesLock,    \* holder of usernames' write lock (0: free)
    tac,              \* try_add_connection per caller: [pc, current]
    runPc,            \* position of ChatServer::run / shutdown
    pc,               \* position of each handle_client task
    username,         \* handle_client's username (from the Join)
    user_id,          \* handle_client's user_id (0: none)
    rmRes,            \* the User remove_user took out, then its result
    written,          \* the frame the last step handed to send, if any
    inLeft,           \* client messages the sessions may still read in their loops
    subscribed,       \* the task holds a broadcast receiver
    rxQueue,          \* broadcast_rx: the events kept for the receiver, oldest first
    rxLagged,         \* broadcast_rx: events were overwritten before it read them
    shutdown_flag,    \* the value of the shutdown watch channel
    shutdownSeen,     \* shutdown_rx has seen the current value
    hbElapsed,        \* time since the loop armed timeout(HEARTBEAT_TIMEOUT, recv)
    silentFor,        \* time since the session last read a client message
    issued,           \* history: the ids add_user has allocated
    leftPublished,    \* history: user_id -> number of UserLeft events sent for it
    wire,             \* per reading end: the bytes written to it and not yet read
    peerClosed,       \* the client has closed its socket: the server's reads end in EOF
    frameRes,         \* per reading end: the last call of the protocol library for its
                      \* stream (write_frame, read_frame, validate) and what it returned
    sentFrames,       \* history, per reading end: what was put on the wire, unread
    trace,            \* history: what was published and what one session took and wrote
    inTransit,        \* bytes the client has written that have not reached the server
    recvBuf,          \* bytes the pending read_frame of the session has taken so far
    state,            \* ChatClient.state
    clientUsername,   \* ChatClient.username (the text field)
    messages,         \* ChatClient.messages
    online_users,     \* ChatClient.online_users
    error_message,    \* ChatClient.error_message
    cmd_rx,           \* UiCommands sent by the front end, not yet taken by the network task
    event_rx,         \* NetworkEvents sent by the network task, not yet polled
    netPc,            \* where the client's network task is
    netLeft,          \* server messages the network task may still receive in its loop
    attempts,         \* Connect commands sent so far
    terminals         \* history: ConnectFailed / Disconnected sent in the current attempt

vars == <<users, usernames, connection_count, next_user_id, usersLock,
          usernamesLock, tac, runPc, pc, username, user_id, rmRes, written, inLeft,
          subscribed, rxQueue, rxLagged, shutdown_flag, shutdownSeen, hbElapsed,
          silentFor, issued, leftPublished, wire, peerClosed, frameRes, sentFrames,
          trace, inTransit, recvBuf, state, clientUsername, messages, online_users,
          error_message, cmd_rx, event_rx, netPc, netLeft, attempts, terminals>>

\* the server's state
serverVars == <<users, usernames, connection_count, next_user_id, usersLock,
                usernamesLock, tac, runPc, pc, username, user_id, rmRes, written, inLeft,
                subscribed, rxQueue, rxLagged, shutdown_flag, shutdownSeen, hbElapsed,
                silentFor, issued, leftPublished>>
\* the two maps and their locks
mapVars == <<users, usernames, usersLock, usernamesLock>>
\* the broadcast channel
rxVars == <<subscribed, rxQueue, rxLagged>>
\* the clocks of the heartbeat timeout
clockVars == <<hbElapsed, silentFor>>
\* the accept loop
runVars == <<tac, runPc, connection_count>>
\* the byte streams of the connection whose frames are modelled byte by byte
codecVars == <<wire, peerClosed, frameRes, sentFrames>>

(***************************************************************************)
(* Messages.                                                               *)
(***************************************************************************)
ErrorMsg(why) == [type |-> "Error", message |-> why]
WelcomeMsg(id) == [type |-> "Welcome", user_id |-> id]
\* an answer that is not a Pong
NotPong == ErrorMsg("pong")
PongMsg == [type |-> "Pong"]

\* BroadcastMsg -> ServerMessage, as the broadcast branch of the loop maps it
ToServerMessage(ev) ==
    CASE ev.type = "Chat" ->
            [type |-> "ChatBroadcast", username |-> ev.username, content |-> ev.content]
      [] ev.type = "UserJoined" -> [type |-> "UserJoined", username |-> ev.username]
      [] ev.type = "UserLeft" -> [type |-> "UserLeft", username |-> ev.username]
      [] ev.type = "Shutdown" -> [type |-> "Shutdown"]

\* the username check left out
ValidateJoinAlways(u) == TRUE

\* a check that takes the limit itself for too long
ValidateJoinBelow(u) == Len(u) # 0 /\ Len(u) < MAX_USERNAME_LEN

\* ClientMessage::validate for Join: Ok iff non-empty and at most MAX_USERNAME_LEN
ValidateJoin(u) == Len(u) # 0 /\ ~(Len(u) > MAX_USERNAME_LEN)

\* the length check left out
ValidateChatAlways(content) == TRUE

\* ClientMessage::validate for Chat: Ok iff at most MAX_MESSAGE_LEN
ValidateChat(content) == ~(content > MAX_MESSAGE_LEN)

(***************************************************************************)
(* Map helpers (HashMap insert / remove / contains_key).                   *)
(***************************************************************************)
MapInsert(m, k, v) == [x \in DOMAIN m \cup {k} |-> IF x = k THEN v ELSE m[x]]
\* a remove that empties the map
MapRemoveAll(m, k) == << >>

\* a remove that takes nothing out
MapRemoveNothing(m, k) == m

MapRemove(m, k) == [x \in DOMAIN m \ {k} |-> m[x]]
ContainsKey(m, k) == k \in DOMAIN m

\* the set of (id, username) pairs each index holds
UsersPairs == {<<i, users[i]>> : i \in DOMAIN users}
UsernamesPairs == {<<usernames[u], u>> : u \in DOMAIN usernames}

(***************************************************************************)
(* conn.send / writer.send: the frame handed to send, and whether it       *)
(* reaches the client's socket (ok) or the write fails and send returns    *)
(* the error.                                                              *)
(***************************************************************************)
NoFrame == [to |-> 0]

Write(s, m, ok) == written' = [to |-> s, msg |-> m, ok |-> ok]

\* a step that writes nothing
NoWrite == written' = NoFrame

(***************************************************************************)
(* The broadcast channel (tokio::sync::broadcast), seen from its           *)
(* receivers: each keeps the events sent since it subscribed, at most the  *)
(* channel's capacity of them; a send that finds a receiver that far       *)
(* behind overwrites the oldest event it has not read, and its next recv   *)
(* reports Lagged before it goes on with the oldest event kept.            *)
(***************************************************************************)
\* a buffer that keeps its oldest elements and drops what comes after
FirstN(q, n) == IF Len(q) <= n THEN q ELSE SubSeq(q, 1, n)

\* the last n elements of a sequence
LastN(q, n) == IF Len(q) <= n THEN q ELSE SubSeq(q, Len(q) - n + 1, Len(q))

\* the queues after broadcast_tx.send(ev), given the queues before
QueuesAfterSend(queues, ev) ==
    [s \in Sessions |-> IF subscribed[s]
                          THEN LastN(Append(queues[s], ev), BroadcastCapacity)
                          ELSE queues[s]]

LaggedAfterSend(queues, lagged) ==
    [s \in Sessions |-> lagged[s] \/ (subscribed[s] /\ Len(queues[s]) >= BroadcastCapacity)]

\* broadcast_tx.send(ev), when the sending step changes no receiver otherwise
Publish(ev) ==
    /\ rxQueue' = QueuesAfterSend(rxQueue, ev)
    /\ rxLagged' = LaggedAfterSend(rxQueue, rxLagged)
    /\ UNCHANGED subscribed

\* the receiver is dropped with the task's locals
DropReceiver(s) ==
    /\ shutdownSeen' = [shutdownSeen EXCEPT ![s] = TRUE]
    /\ subscribed' = [subscribed EXCEPT ![s] = FALSE]
    /\ rxQueue' = [rxQueue EXCEPT ![s] = << >>]
    /\ rxLagged' = [rxLagged EXCEPT ![s] = FALSE]

\* Option<String> returned by remove_user ("pending": not called yet)
RmPending == [tag |-> "pending"]
RmNone == [tag |-> "none"]
RmSome(u) == [tag |-> "some", username |-> u]

(***************************************************************************)
(* The byte streams.  Where a specification takes the messages a session   *)
(* reads from bounded sets, the streams stay as they start: empty.         *)
(***************************************************************************)
Ends == {"server", "client"}

NoCall == [op |-> "none"]

WireEmpty ==
    /\ wire = [e \in Ends |-> << >>]
    /\ peerClosed = FALSE
    /\ frameRes = [e \in Ends |-> NoCall]
    /\ sentFrames = [e \in Ends |-> << >>]

WireIdle == UNCHANGED codecVars

\* what only the specifications of single subsystems use
\* the fields of ChatClient the events act on
uiVars == <<state, clientUsername, messages, online_users, error_message>>

clientVars == <<uiVars, cmd_rx, event_rx, netPc, netLeft, attempts, terminals>>

sideVars == <<trace, inTransit, recvBuf, clientVars>>

\* server messages the client's loop may receive
MaxLoopMsgs == 2

\* ChatClient::new: the network thread waits for its first command
ClientNew ==
    /\ state = [tag |-> "Disconnected"]
    /\ clientUsername = << >>
    /\ messages = << >>
    /\ online_users = << >>
    /\ error_message = "None"
    /\ cmd_rx = << >>
    /\ event_rx = << >>
    /\ netPc = "idle"
    /\ netLeft = MaxLoopMsgs
    /\ attempts = 0
    /\ terminals = 0

SideNew ==
    /\ trace = << >>
    /\ inTransit = << >>
    /\ recvBuf = << >>
    /\ ClientNew

SideIdle == UNCHANGED sideVars

(***************************************************************************)
(* Initial state: SharedState::new, ChatServer::new, nothing accepted.     *)
(***************************************************************************)
Init ==
    /\ users = << >>
    /\ usernames = << >>
    /\ connection_count = 0
    /\ next_user_id = 1
    /\ usersLock = 0
    /\ usernamesLock = 0
    /\ tac = [c \in Callers |-> [pc |-> "idle", current |-> 0]]
    /\ runPc = "select"
    /\ pc = [s \in Sessions |-> "unconnected"]
    /\ username = [s \in Sessions |-> << >>]
    /\ user_id = [s \in Sessions |-> 0]
    /\ rmRes = [s \in Sessions |-> RmPending]
    /\ written = NoFrame
    /\ inLeft = MaxClientMsgs
    /\ subscribed = [s \in Sessions |-> FALSE]
    /\ rxQueue = [s \in Sessions |-> << >>]
    /\ rxLagged = [s \in Sessions |-> FALSE]
    /\ shutdown_flag = FALSE
    /\ shutdownSeen = [s \in Sessions |-> TRUE]
    /\ hbElapsed = [s \in Sessions |-> 0]
    /\ silentFor = [s \in Sessions |-> 0]
    /\ issued = {}
    /\ leftPublished = << >>
    /\ WireEmpty
    /\ SideNew

(***************************************************************************)
(* SharedState::try_add_connection, one step per atomic access.            *)
(***************************************************************************)
\* let current = connection_count.load()
TryAddLoad(c) ==
    /\ tac[c].pc = "load"
    /\ tac' = [tac EXCEPT ![c] = [pc |-> "cas", current |-> connection_count]]
    /\ UNCHANGED connection_count

\* the limit test off by one
LimitReachedOffByOne(current) == current > MAX_CONNECTIONS

\* the limit test left out
LimitNeverReached(current) == FALSE

\* if current >= MAX_CONNECTIONS { return false }
LimitReached(current) == current >= MAX_CONNECTIONS

\* compare_exchange(current, current + 1).is_ok()
CompareExchangeOk(current) == connection_count = current

\* the limit test, then the compare_exchange; the loop starts over when it fails
TryAddCas(c) ==
    /\ tac[c].pc = "cas"
    /\ IF LimitReached(tac[c].current)
         THEN /\ tac' = [tac EXCEPT ![c] = [pc |-> "false", current |-> 0]]
              /\ UNCHANGED connection_count
         ELSE IF CompareExchangeOk(tac[c].current)
                THEN /\ connection_count' = tac[c].current + 1
                     /\ tac' = [tac EXCEPT ![c] = [pc |-> "true", current |-> 0]]
                ELSE /\ tac' = [tac EXCEPT ![c] = [pc |-> "load", current |-> 0]]
                     /\ UNCHANGED connection_count

\* a release that does not decrement
RemoveConnectionSkipped == UNCHANGED connection_count

\* SharedState::remove_connection: fetch_sub(1).  The counter is an AtomicU32: a
\* decrement of 0 would wrap to u32::MAX, which the model shows as -1.
RemoveConnection == connection_count' = connection_count - 1

(***************************************************************************)
(* SharedState::add_user, one step per lock acquisition and per critical   *)
(* section.  username[s] is the argument, user_id[s] the local id.         *)
(***************************************************************************)
\* let mut usernames = self.usernames.write().await
AddUserLock(s) ==
    /\ pc[s] = "au_lock"
    /\ usernamesLock = 0
    /\ usernamesLock' = s
    /\ pc' = [pc EXCEPT ![s] = "au_check"]
    /\ UNCHANGED <<users, usernames, next_user_id, usersLock, user_id, rmRes, issued>>

\* the uniqueness check left out
NameNeverTaken(names, u) == FALSE

\* the uniqueness check made on the users map, which add_user fills last
NameTakenByUsers(names, u) == \E i \in DOMAIN users : users[i] = u

\* if usernames.contains_key(&username) { return None }
NameTaken(names, u) == ContainsKey(names, u)

\* an id computed from the size of the users map
AllocatedIdBySize == Cardinality(DOMAIN users) + 1

\* the id a successful add_user allocates: next_user_id.fetch_add(1) returns the old value
AllocatedId == next_user_id

\* fetch_add before the uniqueness check
NextIdAlways(taken) == next_user_id + 1

\* the generator after the check: fetch_add is reached only when the name is free
NextIdAfter(taken) == IF taken THEN next_user_id ELSE next_user_id + 1

\* an add_user without drop(usernames): the guard is still held when users is locked
AddUserCheckKeepsLock(s) ==
    /\ pc[s] = "au_check"
    /\ usernamesLock = s
    /\ next_user_id' = NextIdAfter(NameTaken(usernames, username[s]))
    /\ IF NameTaken(usernames, username[s])
         THEN /\ pc' = [pc EXCEPT ![s] = "au_none"]
              /\ usernamesLock' = 0
              /\ UNCHANGED <<usernames, user_id, issued>>
         ELSE /\ user_id' = [user_id EXCEPT ![s] = AllocatedId]
              /\ usernames' = MapInsert(usernames, username[s], AllocatedId)
              /\ issued' = issued \cup {AllocatedId}
              /\ pc' = [pc EXCEPT ![s] = "au_users"]
              /\ UNCHANGED usernamesLock
    /\ UNCHANGED <<users, usersLock, rmRes>>

\* contains_key => return None; else fetch_add, insert, drop(usernames)
AddUserCheck(s) ==
    /\ pc[s] = "au_check"
    /\ usernamesLock = s
    /\ usernamesLock' = 0
    /\ next_user_id' = NextIdAfter(NameTaken(usernames, username[s]))
    /\ IF NameTaken(usernames, username[s])
         THEN /\ pc' = [pc EXCEPT ![s] = "au_none"]
              /\ UNCHANGED <<usernames, user_id, issued>>
         ELSE /\ user_id' = [user_id EXCEPT ![s] = AllocatedId]
              /\ usernames' = MapInsert(usernames, username[s], AllocatedId)
              /\ issued' = issued \cup {AllocatedId}
              /\ pc' = [pc EXCEPT ![s] = "au_users"]
    /\ UNCHANGED <<users, usersLock, rmRes>>

\* let mut users = self.users.write().await
AddUserUsersLock(s) ==
    /\ pc[s] = "au_users"
    /\ usersLock = 0
    /\ usersLock' = s
    /\ pc' = [pc EXCEPT ![s] = "au_insert"]
    /\ UNCHANGED <<users, usernames, next_user_id, usernamesLock, user_id, rmRes,
                   issued>>

\* users.insert(id, User { username }); Some(id)
AddUserInsert(s) ==
    /\ pc[s] = "au_insert"
    /\ usersLock = s
    /\ users' = MapInsert(users, user_id[s], username[s])
    /\ usersLock' = 0
    /\ pc' = [pc EXCEPT ![s] = "au_some"]
    /\ UNCHANGED <<usernames, next_user_id, usernamesLock, user_id, rmRes, issued>>

(***************************************************************************)
(* SharedState::remove_user.  user_id[s] is the argument; rmRes[s] holds   *)
(* the removed User and, on return, the result.                            *)
(***************************************************************************)
\* let mut users = self.users.write().await
RemoveUserLock(s) ==
    /\ pc[s] = "ru_lock"
    /\ usersLock = 0
    /\ usersLock' = s
    /\ pc' = [pc EXCEPT ![s] = "ru_remove"]
    /\ UNCHANGED <<users, usernames, next_user_id, usernamesLock, user_id, rmRes,
                   issued>>

\* if let Some(user) = users.remove(&id) { drop(users); .. } else { None }
RemoveUserRemove(s) ==
    /\ pc[s] = "ru_remove"
    /\ usersLock = s
    /\ usersLock' = 0
    /\ IF ContainsKey(users, user_id[s])
         THEN /\ users' = MapRemove(users, user_id[s])
              /\ rmRes' = [rmRes EXCEPT ![s] = RmSome(users[user_id[s]])]
              /\ pc' = [pc EXCEPT ![s] = "ru_names"]
         ELSE /\ rmRes' = [rmRes EXCEPT ![s] = RmNone]
              /\ pc' = [pc EXCEPT ![s] = "ru_none"]
              /\ UNCHANGED users
    /\ UNCHANGED <<usernames, next_user_id, usernamesLock, user_id, issued>>

\* let mut usernames = self.usernames.write().await
RemoveUserNamesLock(s) ==
    /\ pc[s] = "ru_names"
    /\ usernamesLock = 0
    /\ usernamesLock' = s
    /\ pc' = [pc EXCEPT ![s] = "ru_names_remove"]
    /\ UNCHANGED <<users, usernames, next_user_id, usersLock, user_id, rmRes, issued>>

\* usernames.remove(&user.username); Some(user.username)
RemoveUserNamesRemove(s) ==
    /\ pc[s] = "ru_names_remove"
    /\ usernamesLock = s
    /\ usernames' = MapRemove(usernames, rmRes[s].username)
    /\ usernamesLock' = 0
    /\ pc' = [pc EXCEPT ![s] = "ru_some"]
    /\ UNCHANGED <<users, next_user_id, usersLock, user_id, rmRes, issued>>

\* what a step inside add_user / remove_user leaves alone
RegistryFrame ==
    /\ NoWrite
    /\ UNCHANGED <<runVars, rxVars, clockVars, username, inLeft, shutdown_flag,
                shutdownSeen, leftPublished>>

(***************************************************************************)
(* ChatServer::run: the accept loop, and ChatServer::shutdown.             *)
(***************************************************************************)
\* the process lives until run returns (main then drops the runtime and its tasks)
Alive == runPc # "exited"

\* listener.accept() yields the next connection; try_add_connection is entered
Accept(s) ==
    /\ runPc = "select"
    /\ pc[s] = "unconnected"
    /\ \A t \in Sessions : t < s => pc[t] # "unconnected"
    /\ pc' = [pc EXCEPT ![s] = "admitting"]
    /\ tac' = [tac EXCEPT ![0].pc = "load"]
    /\ runPc' = "admit"
    /\ NoWrite
    /\ UNCHANGED <<mapVars, rxVars, connection_count, next_user_id, username, user_id,
                   rmRes, inLeft, shutdown_flag, shutdownSeen, issued,
                   leftPublished>>
    /\ UNCHANGED clockVars

\* what a step of try_add_connection in the accept loop leaves alone
AdmitFrame ==
    /\ NoWrite
    /\ UNCHANGED <<mapVars, rxVars, clockVars, runPc, next_user_id, pc, username,
                   user_id, rmRes, inLeft, shutdown_flag, shutdownSeen, issued,
                   leftPublished>>

RunTryAddLoad == runPc = "admit" /\ TryAddLoad(0) /\ AdmitFrame

RunTryAddCas == runPc = "admit" /\ TryAddCas(0) /\ AdmitFrame

\* try_add_connection returned false: send Error (result ignored), drop the connection
Reject(s, ok) ==
    /\ runPc = "admit"
    /\ pc[s] = "admitting"
    /\ tac[0].pc = "false"
    /\ Write(s, ErrorMsg("busy"), ok)
    /\ pc' = [pc EXCEPT ![s] = "rejected"]
    /\ tac' = [tac EXCEPT ![0].pc = "idle"]
    /\ runPc' = "select"
    /\ UNCHANGED <<mapVars, rxVars, connection_count, next_user_id, username, user_id,
                   rmRes, inLeft, shutdown_flag, shutdownSeen, issued, leftPublished>>
    /\ UNCHANGED clockVars

\* try_add_connection returned true: subscribe, clone shutdown_rx, spawn handle_client
Spawn(s) ==
    /\ runPc = "admit"
    /\ pc[s] = "admitting"
    /\ tac[0].pc = "true"
    /\ subscribed' = [subscribed EXCEPT ![s] = TRUE]
    /\ shutdownSeen' = [shutdownSeen EXCEPT ![s] = TRUE]
    /\ NoWrite
    /\ pc' = [pc EXCEPT ![s] = "await_join"]
    /\ tac' = [tac EXCEPT ![0].pc = "idle"]
    /\ runPc' = "select"
    /\ UNCHANGED <<mapVars, rxQueue, rxLagged, connection_count, next_user_id,
                   username, user_id, rmRes, inLeft, shutdown_flag, issued,
                   leftPublished>>
    /\ UNCHANGED clockVars

\* ctrl_c is selected; shutdown() sends BroadcastMsg::Shutdown
ShutdownBroadcast ==
    /\ runPc = "select"
    /\ Publish([type |-> "Shutdown"])
    /\ runPc' = "shutdown_signal"
    /\ NoWrite
    /\ UNCHANGED <<mapVars, tac, connection_count, next_user_id, pc, username,
                   user_id, rmRes, inLeft, shutdown_flag, shutdownSeen, issued,
                   leftPublished>>
    /\ UNCHANGED clockVars

\* shutdown_tx.send(true): every live receiver has a change to see
ShutdownSignal ==
    /\ runPc = "shutdown_signal"
    /\ shutdown_flag' = TRUE
    /\ shutdownSeen' = [s \in Sessions |-> ~subscribed[s]]
    /\ runPc' = "drain"
    /\ NoWrite
    /\ UNCHANGED <<mapVars, rxVars, tac, connection_count, next_user_id, pc, username,
                   user_id, rmRes, inLeft, issued, leftPublished>>
    /\ UNCHANGED clockVars

\* run returns and main ends: the runtime and every task still running are dropped,
\* and with the process all of its state
ProcessExit ==
    /\ runPc' = "exited"
    /\ users' = << >>
    /\ usernames' = << >>
    /\ connection_count' = 0
    /\ next_user_id' = 1
    /\ usersLock' = 0
    /\ usernamesLock' = 0
    /\ tac' = [c \in Callers |-> [pc |-> "idle", current |-> 0]]
    /\ pc' = [s \in Sessions |-> "closed"]
    /\ username' = [s \in Sessions |-> << >>]
    /\ user_id' = [s \in Sessions |-> 0]
    /\ rmRes' = [s \in Sessions |-> RmPending]
    /\ written' = NoFrame
    /\ inLeft' = 0
    /\ subscribed' = [s \in Sessions |-> FALSE]
    /\ rxQueue' = [s \in Sessions |-> << >>]
    /\ rxLagged' = [s \in Sessions |-> FALSE]
    /\ shutdown_flag' = TRUE
    /\ shutdownSeen' = [s \in Sessions |-> TRUE]
    /\ hbElapsed' = [s \in Sessions |-> 0]
    /\ silentFor' = [s \in Sessions |-> 0]
    /\ issued' = {}
    /\ leftPublished' = << >>

\* while online_count() > 0 { if elapsed > 5s { break } sleep }: the loop ends when
\* the counter reads 0 ..
DrainDone ==
    /\ runPc = "drain"
    /\ connection_count = 0
    /\ ProcessExit

\* a drain loop without its deadline: this exit is never taken
DrainWithoutDeadline ==
    /\ runPc = "drain"
    /\ FALSE
    /\ UNCHANGED vars

\* .. or at a pass after the deadline
DrainTimeout ==
    /\ runPc = "drain"
    /\ connection_count > 0
    /\ ProcessExit

(***************************************************************************)
(* handle_client: the handshake.                                           *)
(***************************************************************************)
\* what a step of the handler that touches only its own connection leaves alone
LocalFrame ==
    UNCHANGED <<mapVars, runVars, next_user_id, user_id, rmRes, shutdown_flag,
                issued, leftPublished>>

\* the loop starts over: select! builds a new timeout(HEARTBEAT_TIMEOUT, recv) future
Rearm(s) == hbElapsed' = [hbElapsed EXCEPT ![s] = 0]

\* a message of the client has been read
ClientSpoke(s) == silentFor' = [silentFor EXCEPT ![s] = 0]

\* the loop is left: its timeout future is dropped
StopClocks(s) == Rearm(s) /\ ClientSpoke(s)

\* `return` and a failed `.await?`: handle_client returns, its receiver is dropped
AfterReturn == "returned"

\* `break`: the loop is left for the cleanup
AfterBreak == "ru_lock"

\* the next position of the handler; once the loop is left or the handler returns,
\* its receivers are never used again
Goto(s, next) ==
    /\ pc' = [pc EXCEPT ![s] = next]
    /\ IF next \in {"returned", "ru_lock"}
         THEN DropReceiver(s)
         ELSE UNCHANGED <<rxVars, shutdownSeen>>

\* Ok(Ok(Join { username })): validate, then add_user or Error and return
RecvJoin(s, u, ok) ==
    /\ Alive
    /\ pc[s] = "await_join"
    /\ IF ValidateJoin(u)
         THEN /\ ok
              /\ username' = [username EXCEPT ![s] = u]
              /\ Goto(s, "au_lock")
              /\ NoWrite
         ELSE /\ Write(s, ErrorMsg("invalid username"), ok)
              /\ Goto(s, AfterReturn)
              /\ UNCHANGED username
    /\ UNCHANGED inLeft
    /\ LocalFrame
    /\ UNCHANGED clockVars

\* Ok(Ok(_)): the first message is not a Join
RecvNotJoin(s, ok) ==
    /\ Alive
    /\ pc[s] = "await_join"
    /\ Write(s, ErrorMsg("join first"), ok)
    /\ Goto(s, AfterReturn)
    /\ UNCHANGED <<username, inLeft>>
    /\ LocalFrame
    /\ UNCHANGED clockVars

\* Ok(Err(e)): the receive failed (closed, bad frame, i/o error)
RecvJoinFailed(s) ==
    /\ Alive
    /\ pc[s] = "await_join"
    /\ NoWrite
    /\ Goto(s, AfterReturn)
    /\ UNCHANGED <<username, inLeft>>
    /\ LocalFrame
    /\ UNCHANGED clockVars

\* Err(_): JOIN_TIMEOUT elapsed
JoinTimeout(s, ok) ==
    /\ Alive
    /\ pc[s] = "await_join"
    /\ Write(s, ErrorMsg("join timeout"), ok)
    /\ Goto(s, AfterReturn)
    /\ UNCHANGED <<username, inLeft>>
    /\ LocalFrame
    /\ UNCHANGED clockVars

\* state.add_user(username.clone()).await, step by step
HandlerAddUser(s) ==
    /\ Alive
    /\ \/ AddUserLock(s)
       \/ AddUserCheck(s)
       \/ AddUserUsersLock(s)
       \/ AddUserInsert(s)
    /\ RegistryFrame

\* None => send Error, return
JoinRejected(s, ok) ==
    /\ Alive
    /\ pc[s] = "au_none"
    /\ Write(s, ErrorMsg("username taken"), ok)
    /\ Goto(s, AfterReturn)
    /\ UNCHANGED <<username, inLeft>>
    /\ LocalFrame
    /\ UNCHANGED clockVars

\* a handshake that goes on to publish although the Welcome could not be written
SendWelcomeUnchecked(s, ok) ==
    /\ Alive
    /\ pc[s] = "au_some"
    /\ Write(s, WelcomeMsg(user_id[s]), ok)
    /\ Goto(s, "pub_joined")
    /\ UNCHANGED <<username, inLeft>>
    /\ LocalFrame
    /\ UNCHANGED clockVars

\* Some(id) => conn.send(Welcome { user_id }).await?
SendWelcome(s, ok) ==
    /\ Alive
    /\ pc[s] = "au_some"
    /\ Write(s, WelcomeMsg(user_id[s]), ok)
    /\ Goto(s, IF ok THEN "pub_joined" ELSE AfterReturn)
    /\ UNCHANGED <<username, inLeft>>
    /\ LocalFrame
    /\ UNCHANGED clockVars

\* broadcast_tx.send(UserJoined { username }); the handler enters the loop
PublishJoined(s) ==
    /\ Alive
    /\ pc[s] = "pub_joined"
    /\ Publish([type |-> "UserJoined", username |-> username[s]])
    /\ pc' = [pc EXCEPT ![s] = "active"]
    /\ NoWrite
    /\ UNCHANGED <<username, inLeft, shutdownSeen>>
    /\ LocalFrame
    /\ UNCHANGED clockVars

(***************************************************************************)
(* handle_client: the active loop, one action per select branch outcome.   *)
(***************************************************************************)
\* a publish that passes over the sender's own receiver
RecvChatToOthers(s, content, ok) ==
    /\ Alive
    /\ pc[s] = "active"
    /\ inLeft > 0
    /\ inLeft' = inLeft - 1
    /\ IF ValidateChat(content)
         THEN /\ ok
              /\ rxQueue' =
                    [QueuesAfterSend(rxQueue, [type |-> "Chat", username |-> username[s],
                                               content |-> content])
                       EXCEPT ![s] = rxQueue[s]]
              /\ rxLagged' = [LaggedAfterSend(rxQueue, rxLagged) EXCEPT ![s] = rxLagged[s]]
              /\ NoWrite
              /\ UNCHANGED <<pc, shutdownSeen, subscribed>>
         ELSE /\ Write(s, ErrorMsg("invalid message"), ok)
              /\ Goto(s, IF ok THEN "active" ELSE AfterReturn)
    /\ UNCHANGED username
    /\ LocalFrame
    /\ Rearm(s)
    /\ ClientSpoke(s)

\* a handler that publishes the Chat of a client that has not joined
RecvChatBeforeJoin(s, content, ok) ==
    /\ Alive
    /\ pc[s] \in {"await_join", "active"}
    /\ inLeft > 0
    /\ inLeft' = inLeft - 1
    /\ IF ValidateChat(content)
         THEN /\ ok
              /\ Publish([type |-> "Chat", username |-> username[s],
                          content |-> content])
              /\ NoWrite
              /\ UNCHANGED <<pc, shutdownSeen>>
         ELSE /\ Write(s, ErrorMsg("invalid message"), ok)
              /\ Goto(s, IF ok THEN "active" ELSE AfterReturn)
    /\ UNCHANGED username
    /\ LocalFrame
    /\ Rearm(s)
    /\ ClientSpoke(s)

\* Chat { content }: validate; Error to the sender, or publish the Chat event
RecvChat(s, content, ok) ==
    /\ Alive
    /\ pc[s] = "active"
    /\ inLeft > 0
    /\ inLeft' = inLeft - 1
    /\ IF ValidateChat(content)
         THEN /\ ok
              /\ Publish([type |-> "Chat", username |-> username[s],
                          content |-> content])
              /\ NoWrite
              /\ UNCHANGED <<pc, shutdownSeen>>
         ELSE /\ Write(s, ErrorMsg("invalid message"), ok)
              /\ Goto(s, IF ok THEN "active" ELSE AfterReturn)
    /\ UNCHANGED username
    /\ LocalFrame
    /\ Rearm(s)
    /\ ClientSpoke(s)

\* Ping: writer.send(Pong).await?
RecvPing(s, ok) ==
    /\ Alive
    /\ pc[s] = "active"
    /\ inLeft > 0
    /\ inLeft' = inLeft - 1
    /\ Write(s, PongMsg, ok)
    /\ Goto(s, IF ok THEN "active" ELSE AfterReturn)
    /\ UNCHANGED username
    /\ LocalFrame
    /\ Rearm(s)
    /\ ClientSpoke(s)

\* a loop that answers a repeated Join with the Error and then leaves
RecvJoinAgainCloses(s, ok) ==
    /\ Alive
    /\ pc[s] = "active"
    /\ inLeft > 0
    /\ inLeft' = inLeft - 1
    /\ Write(s, ErrorMsg("already joined"), ok)
    /\ Goto(s, AfterReturn)
    /\ UNCHANGED username
    /\ LocalFrame
    /\ Rearm(s)
    /\ ClientSpoke(s)

\* Join { .. } while active: writer.send(Error).await?
RecvJoinAgain(s, ok) ==
    /\ Alive
    /\ pc[s] = "active"
    /\ inLeft > 0
    /\ inLeft' = inLeft - 1
    /\ Write(s, ErrorMsg("already joined"), ok)
    /\ Goto(s, IF ok THEN "active" ELSE AfterReturn)
    /\ UNCHANGED username
    /\ LocalFrame
    /\ Rearm(s)
    /\ ClientSpoke(s)

\* Leave, Ok(Err(ConnectionClosed)), Ok(Err(e)) and the heartbeat timeout: break
RecvBreak(s, why) ==
    /\ Alive
    /\ pc[s] = "active"
    /\ why \in {"Leave", "ConnectionClosed", "RecvError", "HeartbeatTimeout"}
    /\ Goto(s, AfterBreak)
    /\ NoWrite
    /\ UNCHANGED <<username, inLeft>>
    /\ LocalFrame
    /\ StopClocks(s)

\* a receiver that hands out the newest event it holds first
BroadcastRecvNewest(s, ok) ==
    /\ Alive
    /\ pc[s] = "active"
    /\ ~rxLagged[s]
    /\ rxQueue[s] # << >>
    /\ Write(s, ToServerMessage(rxQueue[s][Len(rxQueue[s])]), ok)
    /\ IF ~ok \/ rxQueue[s][Len(rxQueue[s])].type = "Shutdown"
         THEN Goto(s, AfterBreak)
         ELSE /\ rxQueue' = [rxQueue EXCEPT ![s] = SubSeq(@, 1, Len(@) - 1)]
              /\ UNCHANGED <<pc, subscribed, rxLagged, shutdownSeen>>
    /\ UNCHANGED <<username, inLeft>>
    /\ LocalFrame
    /\ Rearm(s)
    /\ IF ~ok \/ rxQueue[s][Len(rxQueue[s])].type = "Shutdown"
         THEN ClientSpoke(s)
         ELSE UNCHANGED silentFor

\* broadcast_rx.recv() => Ok(msg): write it; break on a failed write or on Shutdown
BroadcastRecv(s, ok) ==
    /\ Alive
    /\ pc[s] = "active"
    /\ ~rxLagged[s]
    /\ rxQueue[s] # << >>
    /\ Write(s, ToServerMessage(Head(rxQueue[s])), ok)
    /\ IF ~ok \/ Head(rxQueue[s]).type = "Shutdown"
         THEN Goto(s, AfterBreak)
         ELSE /\ rxQueue' = [rxQueue EXCEPT ![s] = Tail(@)]
              /\ UNCHANGED <<pc, subscribed, rxLagged, shutdownSeen>>
    /\ UNCHANGED <<username, inLeft>>
    /\ LocalFrame
    /\ Rearm(s)
    /\ IF ~ok \/ Head(rxQueue[s]).type = "Shutdown"
         THEN ClientSpoke(s)
         ELSE UNCHANGED silentFor

\* a loop that treats Lagged as the end of the session
BroadcastLaggedBreaks(s) ==
    /\ Alive
    /\ pc[s] = "active"
    /\ rxLagged[s]
    /\ Goto(s, AfterBreak)
    /\ NoWrite
    /\ UNCHANGED <<username, inLeft>>
    /\ LocalFrame
    /\ StopClocks(s)

\* broadcast_rx.recv() => Err(Lagged(n)): logged; the receiver goes on from the
\* oldest event kept
BroadcastLagged(s) ==
    /\ Alive
    /\ pc[s] = "active"
    /\ rxLagged[s]
    /\ rxLagged' = [rxLagged EXCEPT ![s] = FALSE]
    /\ NoWrite
    /\ UNCHANGED <<pc, username, inLeft, subscribed, rxQueue,
                   shutdownSeen>>
    /\ LocalFrame
    /\ Rearm(s)
    /\ UNCHANGED silentFor

\* shutdown_rx.changed(): break if the flag is set
ShutdownChanged(s) ==
    /\ Alive
    /\ pc[s] = "active"
    /\ ~shutdownSeen[s]
    /\ NoWrite
    /\ IF shutdown_flag
         THEN Goto(s, AfterBreak)
         ELSE /\ shutdownSeen' = [shutdownSeen EXCEPT ![s] = TRUE]
              /\ UNCHANGED <<pc, rxVars>>
    /\ UNCHANGED <<mapVars, runVars, next_user_id, username, user_id, rmRes, inLeft, shutdown_flag, issued, leftPublished>>
    /\ Rearm(s)
    /\ IF shutdown_flag THEN ClientSpoke(s) ELSE UNCHANGED silentFor

(***************************************************************************)
(* handle_client: the cleanup, and the end of the spawned task.            *)
(***************************************************************************)
\* state.remove_user(user_id).await, step by step
HandlerRemoveUser(s) ==
    /\ Alive
    /\ \/ RemoveUserLock(s)
       \/ RemoveUserRemove(s)
       \/ RemoveUserNamesLock(s)
       \/ RemoveUserNamesRemove(s)
    /\ RegistryFrame

\* the count of UserLeft events for id, one more
CountLeft(m, id) == MapInsert(m, id, IF id \in DOMAIN m THEN m[id] + 1 ELSE 1)

\* if let Some(username) = .. { broadcast_tx.send(UserLeft { username }) }; Ok(())
Cleanup(s) ==
    /\ pc[s] \in {"ru_some", "ru_none"}
    /\ IF rmRes[s].tag = "some"
         THEN /\ Publish([type |-> "UserLeft", username |-> rmRes[s].username])
              /\ leftPublished' = CountLeft(leftPublished, user_id[s])
         ELSE UNCHANGED <<rxVars, leftPublished>>
    /\ pc' = [pc EXCEPT ![s] = "returned"]
    /\ NoWrite
    /\ UNCHANGED <<mapVars, runVars, next_user_id, username, user_id, rmRes, inLeft, shutdown_flag, shutdownSeen, issued>>
    /\ UNCHANGED clockVars

HandlerCleanup(s) == Alive /\ Cleanup(s)

\* handle_client has returned (Ok or Err): state.remove_connection(); the task ends
\* and its locals and its connection are dropped
HandlerDone(s) ==
    /\ Alive
    /\ pc[s] = "returned"
    /\ RemoveConnection
    /\ pc' = [pc EXCEPT ![s] = "closed"]
    /\ username' = [username EXCEPT ![s] = << >>]
    /\ user_id' = [user_id EXCEPT ![s] = 0]
    /\ rmRes' = [rmRes EXCEPT ![s] = RmPending]
    /\ NoWrite
    /\ UNCHANGED inLeft
    /\ shutdownSeen' = [shutdownSeen EXCEPT ![s] = TRUE]
    /\ UNCHANGED <<mapVars, rxVars, tac, runPc, next_user_id, shutdown_flag, issued,
                   leftPublished>>
    /\ UNCHANGED clockVars

(***************************************************************************)
(* The server.                                                             *)
(***************************************************************************)
Next ==
    \/ \E s \in Sessions : Accept(s) /\ WireIdle /\ SideIdle
    \/ RunTryAddLoad /\ WireIdle /\ SideIdle
    \/ RunTryAddCas /\ WireIdle /\ SideIdle
    \/ \E s \in Sessions, ok \in BOOLEAN : Reject(s, ok) /\ WireIdle /\ SideIdle
    \/ \E s \in Sessions : Spawn(s) /\ WireIdle /\ SideIdle
    \/ ShutdownBroadcast /\ WireIdle /\ SideIdle
    \/ ShutdownSignal /\ WireIdle /\ SideIdle
    \/ DrainDone /\ WireIdle /\ SideIdle
    \/ DrainTimeout /\ WireIdle /\ SideIdle
    \/ \E s \in Sessions, u \in InputNames, ok \in BOOLEAN : RecvJoin(s, u, ok) /\ WireIdle /\ SideIdle
    \/ \E s \in Sessions, ok \in BOOLEAN : RecvNotJoin(s, ok) /\ WireIdle /\ SideIdle
    \/ \E s \in Sessions : RecvJoinFailed(s) /\ WireIdle /\ SideIdle
    \/ \E s \in Sessions, ok \in BOOLEAN : JoinTimeout(s, ok) /\ WireIdle /\ SideIdle
    \/ \E s \in Sessions : HandlerAddUser(s) /\ WireIdle /\ SideIdle
    \/ \E s \in Sessions, ok \in BOOLEAN : JoinRejected(s, ok) /\ WireIdle /\ SideIdle
    \/ \E s \in Sessions, ok \in BOOLEAN : SendWelcome(s, ok) /\ WireIdle /\ SideIdle
    \/ \E s \in Sessions : PublishJoined(s) /\ WireIdle /\ SideIdle
    \/ \E s \in Sessions, c \in InputContents, ok \in BOOLEAN : RecvChat(s, c, ok) /\ WireIdle /\ SideIdle
    \/ \E s \in Sessions, ok \in BOOLEAN : RecvPing(s, ok) /\ WireIdle /\ SideIdle
    \/ \E s \in Sessions, ok \in BOOLEAN : RecvJoinAgain(s, ok) /\ WireIdle /\ SideIdle
    \/ \E s \in Sessions :
          \E why \in {"Leave", "ConnectionClosed", "RecvError", "HeartbeatTimeout"} :
             RecvBreak(s, why) /\ WireIdle /\ SideIdle
    \/ \E s \in Sessions, ok \in BOOLEAN : BroadcastRecv(s, ok) /\ WireIdle /\ SideIdle
    \/ \E s \in Sessions : BroadcastLagged(s) /\ WireIdle /\ SideIdle
    \/ \E s \in Sessions : ShutdownChanged(s) /\ WireIdle /\ SideIdle
    \/ \E s \in Sessions : HandlerRemoveUser(s) /\ WireIdle /\ SideIdle
    \/ \E s \in Sessions : HandlerCleanup(s) /\ WireIdle /\ SideIdle
    \/ \E s \in Sessions : HandlerDone(s) /\ WireIdle /\ SideIdle

Spec == Init /\ [][Next]_vars

(***************************************************************************)
(* SharedState's connection counter on its own: NumCallers tasks that call  *)
(* try_add_connection concurrently, and remove_connection once admitted.    *)
(***************************************************************************)
Tasks == 1 .. NumCallers

\* everything but the counter and the callers' positions
admissionRest == <<mapVars, rxVars, clockVars, runPc, next_user_id, pc, username, user_id, rmRes,
                   written, inLeft, shutdown_flag, shutdownSeen, issued, leftPublished>>

\* a task calls try_add_connection
CallerEnter(c) ==
    /\ tac[c].pc = "idle"
    /\ tac' = [tac EXCEPT ![c].pc = "load"]
    /\ UNCHANGED <<connection_count, admissionRest>>

CallerLoad(c) == TryAddLoad(c) /\ UNCHANGED admissionRest

CallerCas(c) == TryAddCas(c) /\ UNCHANGED admissionRest

\* try_add_connection returned false: the task holds no slot
CallerRejected(c) ==
    /\ tac[c].pc = "false"
    /\ tac' = [tac EXCEPT ![c].pc = "idle"]
    /\ UNCHANGED <<connection_count, admissionRest>>

\* try_add_connection returned true; later the task calls remove_connection
CallerRelease(c) ==
    /\ tac[c].pc = "true"
    /\ RemoveConnection
    /\ tac' = [tac EXCEPT ![c].pc = "idle"]
    /\ UNCHANGED admissionRest

NextAdmission ==
    \/ \E c \in Tasks : CallerEnter(c) /\ WireIdle /\ SideIdle
    \/ \E c \in Tasks : CallerLoad(c) /\ WireIdle /\ SideIdle
    \/ \E c \in Tasks : CallerCas(c) /\ WireIdle /\ SideIdle
    \/ \E c \in Tasks : CallerRejected(c) /\ WireIdle /\ SideIdle
    \/ \E c \in Tasks : CallerRelease(c) /\ WireIdle /\ SideIdle

SpecAdmission == Init /\ [][NextAdmission]_vars

(***************************************************************************)
(* SharedState's registry on its own: tasks that call add_user with any    *)
(* name and remove_user with any id, also one that is gone, each removal    *)
(* followed by the handler's `if let Some(username)` publication.          *)
(***************************************************************************)
RegistryNames == {<<"a">>, <<"b">>}

InitRegistry ==
    /\ users = << >>
    /\ usernames = << >>
    /\ connection_count = 0
    /\ next_user_id = 1
    /\ usersLock = 0
    /\ usernamesLock = 0
    /\ tac = [c \in Callers |-> [pc |-> "idle", current |-> 0]]
    /\ runPc = "select"
    /\ pc = [s \in Sessions |-> "idle"]
    /\ username = [s \in Sessions |-> << >>]
    /\ user_id = [s \in Sessions |-> 0]
    /\ rmRes = [s \in Sessions |-> RmPending]
    /\ written = NoFrame
    /\ inLeft = 0
    /\ subscribed = [s \in Sessions |-> FALSE]
    /\ rxQueue = [s \in Sessions |-> << >>]
    /\ rxLagged = [s \in Sessions |-> FALSE]
    /\ shutdown_flag = FALSE
    /\ shutdownSeen = [s \in Sessions |-> TRUE]
    /\ hbElapsed = [s \in Sessions |-> 0]
    /\ silentFor = [s \in Sessions |-> 0]
    /\ issued = {}
    /\ leftPublished = << >>
    /\ WireEmpty
    /\ SideNew

\* the add_user calls that have not reached the name check yet
AddsPending == Cardinality({t \in Sessions : pc[t] \in {"au_lock", "au_check"}})

\* a task calls add_user(u), while the registry has ids left to hand out
CallAddUser(s, u) ==
    /\ pc[s] = "idle"
    /\ next_user_id + AddsPending <= MaxIds
    /\ username' = [username EXCEPT ![s] = u]
    /\ pc' = [pc EXCEPT ![s] = "au_lock"]
    /\ NoWrite
    /\ UNCHANGED <<mapVars, runVars, rxVars, next_user_id, user_id, rmRes, inLeft,
                   shutdown_flag, shutdownSeen, issued, leftPublished>>
    /\ UNCHANGED clockVars

\* the steps of add_user
StepAddUser(s) ==
    /\ \/ AddUserLock(s)
       \/ AddUserCheck(s)
       \/ AddUserUsersLock(s)
       \/ AddUserInsert(s)
    /\ RegistryFrame

\* add_user has returned Some(id) or None to the task
AddUserReturned(s) ==
    /\ pc[s] \in {"au_some", "au_none"}
    /\ pc' = [pc EXCEPT ![s] = "idle"]
    /\ username' = [username EXCEPT ![s] = << >>]
    /\ user_id' = [user_id EXCEPT ![s] = 0]
    /\ NoWrite
    /\ UNCHANGED <<mapVars, runVars, rxVars, next_user_id, rmRes, inLeft,
                   shutdown_flag, shutdownSeen, issued, leftPublished>>
    /\ UNCHANGED clockVars

\* a task calls remove_user(id)
CallRemoveUser(s, id) ==
    /\ pc[s] = "idle"
    /\ user_id' = [user_id EXCEPT ![s] = id]
    /\ pc' = [pc EXCEPT ![s] = "ru_lock"]
    /\ NoWrite
    /\ UNCHANGED <<mapVars, runVars, rxVars, next_user_id, username, rmRes, inLeft,
                   shutdown_flag, shutdownSeen, issued, leftPublished>>
    /\ UNCHANGED clockVars

\* the steps of remove_user
StepRemoveUser(s) ==
    /\ \/ RemoveUserLock(s)
       \/ RemoveUserRemove(s)
       \/ RemoveUserNamesLock(s)
       \/ RemoveUserNamesRemove(s)
    /\ RegistryFrame

\* if let Some(username) = .. { broadcast_tx.send(UserLeft { username }) }
RemoveUserReturned(s) == Cleanup(s)

\* the task is free for its next call
TaskIdle(s) ==
    /\ pc[s] = "returned"
    /\ pc' = [pc EXCEPT ![s] = "idle"]
    /\ user_id' = [user_id EXCEPT ![s] = 0]
    /\ rmRes' = [rmRes EXCEPT ![s] = RmPending]
    /\ NoWrite
    /\ UNCHANGED <<mapVars, runVars, rxVars, next_user_id, username, inLeft,
                   shutdown_flag, shutdownSeen, issued, leftPublished>>
    /\ UNCHANGED clockVars

NextRegistry ==
    \/ \E s \in Sessions, u \in RegistryNames : CallAddUser(s, u) /\ WireIdle /\ SideIdle
    \/ \E s \in Sessions : StepAddUser(s) /\ WireIdle /\ SideIdle
    \/ \E s \in Sessions : AddUserReturned(s) /\ WireIdle /\ SideIdle
    \/ \E s \in Sessions, id \in 1 .. MaxIds : CallRemoveUser(s, id) /\ WireIdle /\ SideIdle
    \/ \E s \in Sessions : StepRemoveUser(s) /\ WireIdle /\ SideIdle
    \/ \E s \in Sessions : RemoveUserReturned(s) /\ WireIdle /\ SideIdle
    \/ \E s \in Sessions : TaskIdle(s) /\ WireIdle /\ SideIdle

SpecRegistry == InitRegistry /\ [][NextRegistry]_vars

\* tokio's RwLock queues its waiters in FIFO order: a task waiting for a lock that is
\* released again and again gets it, and a running task takes its next step
RegistryCallsFair ==
    \A s \in Sessions : SF_vars((StepAddUser(s) \/ StepRemoveUser(s)) /\ WireIdle /\ SideIdle)

\* the calls that contend for one name
NextRegistryOneName ==
    \/ \E s \in Sessions : CallAddUser(s, <<"a">>) /\ WireIdle /\ SideIdle
    \/ \E s \in Sessions : StepAddUser(s) /\ WireIdle /\ SideIdle
    \/ \E s \in Sessions : AddUserReturned(s) /\ WireIdle /\ SideIdle
    \/ \E s \in Sessions, id \in 1 .. MaxIds : CallRemoveUser(s, id) /\ WireIdle /\ SideIdle
    \/ \E s \in Sessions : StepRemoveUser(s) /\ WireIdle /\ SideIdle
    \/ \E s \in Sessions : RemoveUserReturned(s) /\ WireIdle /\ SideIdle
    \/ \E s \in Sessions : TaskIdle(s) /\ WireIdle /\ SideIdle

SpecRegistryFair == InitRegistry /\ [][NextRegistryOneName]_vars /\ RegistryCallsFair

(***************************************************************************)
(* The handshake on its own, fed with usernames of any characters: the     *)
(* first MAX_CONNECTIONS connections have been admitted and wait for their *)
(* Join.                                                                   *)
(***************************************************************************)
\* u8::is_ascii_alphanumeric
AsciiAlphanumeric ==
    {"a", "b", "c", "d", "e", "f", "g", "h", "i", "j", "k", "l", "m", "n", "o", "p", "q",
     "r", "s", "t", "u", "v", "w", "x", "y", "z", "A", "B", "C", "D", "E", "F", "G", "H",
     "I", "J", "K", "L", "M", "N", "O", "P", "Q", "R", "S", "T", "U", "V", "W", "X", "Y",
     "Z", "0", "1", "2", "3", "4", "5", "6", "7", "8", "9"}

\* ChatClient::validate_username: Ok iff non-empty, at most MAX_USERNAME_LEN, and all
\* characters ASCII alphanumeric, '_' or '-'
ValidateUsername(u) ==
    /\ Len(u) # 0
    /\ ~(Len(u) > MAX_USERNAME_LEN)
    /\ \A i \in 1 .. Len(u) : u[i] \in AsciiAlphanumeric \/ u[i] = "_" \/ u[i] = "-"

\* the characters of the usernames a peer may put on the wire
WireChars == {"a", "Z", "7", "_", "-", "!", " "}

WireNames == {<<c>> : c \in WireChars} \cup {<<"a", "!">>, << >>, LongName}

\* the sessions admitted first
Admitted == {s \in Sessions : s <= MAX_CONNECTIONS}

\* the state of Spec after the first MAX_CONNECTIONS connections were accepted
InitJoin ==
    /\ users = << >>
    /\ usernames = << >>
    /\ connection_count = Cardinality(Admitted)
    /\ next_user_id = 1
    /\ usersLock = 0
    /\ usernamesLock = 0
    /\ tac = [c \in Callers |-> [pc |-> "idle", current |-> 0]]
    /\ runPc = "select"
    /\ pc = [s \in Sessions |-> IF s \in Admitted THEN "await_join" ELSE "unconnected"]
    /\ username = [s \in Sessions |-> << >>]
    /\ user_id = [s \in Sessions |-> 0]
    /\ rmRes = [s \in Sessions |-> RmPending]
    /\ written = NoFrame
    /\ inLeft = MaxClientMsgs
    /\ subscribed = [s \in Sessions |-> s \in Admitted]
    /\ rxQueue = [s \in Sessions |-> << >>]
    /\ rxLagged = [s \in Sessions |-> FALSE]
    /\ shutdown_flag = FALSE
    /\ shutdownSeen = [s \in Sessions |-> TRUE]
    /\ hbElapsed = [s \in Sessions |-> 0]
    /\ silentFor = [s \in Sessions |-> 0]
    /\ issued = {}
    /\ leftPublished = << >>
    /\ WireEmpty
    /\ SideNew

NextJoin ==
    \/ \E s \in Sessions, u \in WireNames, ok \in BOOLEAN : RecvJoin(s, u, ok) /\ WireIdle /\ SideIdle
    \/ \E s \in Sessions : HandlerAddUser(s) /\ WireIdle /\ SideIdle
    \/ \E s \in Sessions, ok \in BOOLEAN : JoinRejected(s, ok) /\ WireIdle /\ SideIdle
    \/ \E s \in Sessions, ok \in BOOLEAN : SendWelcome(s, ok) /\ WireIdle /\ SideIdle
    \/ \E s \in Sessions : PublishJoined(s) /\ WireIdle /\ SideIdle

SpecJoin == InitJoin /\ [][NextJoin]_vars

(***************************************************************************)
(* States of Spec in which the first two connections have been served:     *)
(* both have joined and read every event so far, or the first has and the  *)
(* second still waits for its Join.                                        *)
(***************************************************************************)
FirstTwo == {s \in Sessions : s <= 2}

JoinedName(s) == IF s = 1 THEN <<"a">> ELSE <<"b">>

\* what the two states have in common
ServedFrameOf(budget) ==
    /\ usersLock = 0
    /\ usernamesLock = 0
    /\ tac = [c \in Callers |-> [pc |-> "idle", current |-> 0]]
    /\ runPc = "select"
    /\ connection_count = Cardinality(FirstTwo)
    /\ rmRes = [s \in Sessions |-> RmPending]
    /\ inLeft = budget
    /\ subscribed = [s \in Sessions |-> s \in FirstTwo]
    /\ rxQueue = [s \in Sessions |-> << >>]
    /\ rxLagged = [s \in Sessions |-> FALSE]
    /\ shutdown_flag = FALSE
    /\ shutdownSeen = [s \in Sessions |-> TRUE]
    /\ hbElapsed = [s \in Sessions |-> 0]
    /\ silentFor = [s \in Sessions |-> 0]
    /\ leftPublished = << >>
    /\ WireEmpty
    /\ SideNew

ServedFrame == ServedFrameOf(MaxClientMsgs)

\* both are in their loops; the last frame written was the second UserJoined, to the
\* first session
TwoInLoop ==
    /\ users = [i \in FirstTwo |-> JoinedName(i)]
    /\ usernames = [u \in {JoinedName(i) : i \in FirstTwo} |->
                      CHOOSE i \in FirstTwo : JoinedName(i) = u]
    /\ next_user_id = Cardinality(FirstTwo) + 1
    /\ issued = FirstTwo
    /\ pc = [s \in Sessions |-> IF s \in FirstTwo THEN "active" ELSE "unconnected"]
    /\ username = [s \in Sessions |-> IF s \in FirstTwo THEN JoinedName(s) ELSE << >>]
    /\ user_id = [s \in Sessions |-> IF s \in FirstTwo THEN s ELSE 0]
    /\ written = [to |-> 1,
                  msg |-> [type |-> "UserJoined", username |-> JoinedName(2)],
                  ok |-> TRUE]

InitTwoActive == ServedFrame /\ TwoInLoop

\* the first is in its loop, the second has just been spawned
InitOneActiveOneWaiting ==
    /\ ServedFrame
    /\ users = [i \in {1} |-> JoinedName(i)]
    /\ usernames = [u \in {JoinedName(1)} |-> 1]
    /\ next_user_id = 2
    /\ issued = {1}
    /\ pc = [s \in Sessions |-> IF s = 1 THEN "active"
                                 ELSE IF s = 2 THEN "await_join" ELSE "unconnected"]
    /\ username = [s \in Sessions |-> IF s = 1 THEN JoinedName(s) ELSE << >>]
    /\ user_id = [s \in Sessions |-> IF s = 1 THEN 1 ELSE 0]
    /\ written = NoFrame

(***************************************************************************)
(* The active loop with time: two sessions in their loops, a clock that    *)
(* ticks, and the heartbeat timeout firing when the timeout future the     *)
(* loop last built has run for HEARTBEAT_TIMEOUT.  The channel cannot lag  *)
(* and nobody shuts the server down here.                                  *)
(***************************************************************************)
\* one unit of time passes; a timeout future that has expired is served first
Tick ==
    /\ Alive
    /\ \E s \in Sessions : pc[s] = "active"
    /\ \A s \in Sessions : pc[s] = "active" => hbElapsed[s] < HeartbeatTicks
    /\ hbElapsed' = [s \in Sessions |-> IF pc[s] = "active" THEN hbElapsed[s] + 1 ELSE 0]
    /\ silentFor' = [s \in Sessions |-> IF pc[s] = "active" THEN silentFor[s] + 1 ELSE 0]
    /\ NoWrite
    /\ UNCHANGED <<mapVars, runVars, rxVars, next_user_id, pc, username, user_id, rmRes,
                   inLeft, shutdown_flag, shutdownSeen, issued, leftPublished>>

\* Err(_) of timeout(HEARTBEAT_TIMEOUT, reader.recv()): the future has run its time
HeartbeatTimeout(s) ==
    /\ hbElapsed[s] = HeartbeatTicks
    /\ RecvBreak(s, "HeartbeatTimeout")

NextHeartbeat ==
    \/ Tick /\ WireIdle /\ SideIdle
    \/ \E s \in Sessions : HeartbeatTimeout(s) /\ WireIdle /\ SideIdle
    \/ \E s \in Sessions, c \in InputContents, ok \in BOOLEAN : RecvChat(s, c, ok) /\ WireIdle /\ SideIdle
    \/ \E s \in Sessions, ok \in BOOLEAN : RecvPing(s, ok) /\ WireIdle /\ SideIdle
    \/ \E s \in Sessions, ok \in BOOLEAN : RecvJoinAgain(s, ok) /\ WireIdle /\ SideIdle
    \/ \E s \in Sessions :
          \E why \in {"Leave", "ConnectionClosed", "RecvError"} : RecvBreak(s, why) /\ WireIdle /\ SideIdle
    \/ \E s \in Sessions, ok \in BOOLEAN : BroadcastRecv(s, ok) /\ WireIdle /\ SideIdle
    \/ \E s \in Sessions : HandlerRemoveUser(s) /\ WireIdle /\ SideIdle
    \/ \E s \in Sessions : HandlerCleanup(s) /\ WireIdle /\ SideIdle
    \/ \E s \in Sessions : HandlerDone(s) /\ WireIdle /\ SideIdle

SpecHeartbeat == InitTwoActive /\ [][NextHeartbeat]_vars

(***************************************************************************)
(* Shutdown with clients that stay connected and silent: they send         *)
(* nothing, their sockets take every write, and no 30 s timeout runs out   *)
(* within the drain.  The loop that polls the counter runs every 100 ms,   *)
(* so one of its two exits is taken once it stays open.                    *)
(***************************************************************************)
InitShutdown == InitTwoActive \/ InitOneActiveOneWaiting

\* the steps session s can take on its own
QuietStep(s) ==
    \/ BroadcastRecv(s, TRUE)
    \/ ShutdownChanged(s)
    \/ HandlerRemoveUser(s)
    \/ HandlerCleanup(s)
    \/ HandlerDone(s)

NextShutdown ==
    \/ ShutdownBroadcast /\ WireIdle /\ SideIdle
    \/ ShutdownSignal /\ WireIdle /\ SideIdle
    \/ DrainDone /\ WireIdle /\ SideIdle
    \/ DrainTimeout /\ WireIdle /\ SideIdle
    \/ \E s \in Sessions : BroadcastRecv(s, TRUE) /\ WireIdle /\ SideIdle
    \/ \E s \in Sessions : ShutdownChanged(s) /\ WireIdle /\ SideIdle
    \/ \E s \in Sessions : HandlerRemoveUser(s) /\ WireIdle /\ SideIdle
    \/ \E s \in Sessions : HandlerCleanup(s) /\ WireIdle /\ SideIdle
    \/ \E s \in Sessions : HandlerDone(s) /\ WireIdle /\ SideIdle

SpecShutdown ==
    InitShutdown /\ [][NextShutdown]_vars /\ WF_vars((DrainDone \/ DrainTimeout) /\ WireIdle /\ SideIdle)

(***************************************************************************)
(* The frame codec (protocol/src/codec.rs) and bincode's encoding of the   *)
(* two message enums, byte by byte.  A frame is one version byte, the      *)
(* payload's length as a big-endian u32, and the payload.  bincode writes  *)
(* an enum as its variant index (u32, little-endian) followed by its       *)
(* fields, a String as its length (u64, little-endian) followed by its     *)
(* UTF-8 bytes, and integers little-endian at their full width.            *)
(***************************************************************************)
PROTOCOL_VERSION == 1
HEADER_SIZE == 5

\* the largest payload of a frame (constants.rs sets 8192; scaled down so that
\* payloads on both sides of the limit are short)
MAX_FRAME_SIZE == 32
\* frames and raw byte strings in flight over both directions together
MaxInFlight == 2

\* Result values
Ok(v) == [ok |-> TRUE, val |-> v]
Err(e) == [ok |-> FALSE, err |-> e]

\* the characters of the model's strings and their UTF-8 encodings (one byte each)
CharCode == ("a" :> 97) @@ ("b" :> 98) @@ ("h" :> 104) @@ ("i" :> 105) @@ ("x" :> 120)
CharCodes == {CharCode[c] : c \in DOMAIN CharCode}
CodeChar(b) == CHOOSE c \in DOMAIN CharCode : CharCode[c] = b

\* String::from_utf8 accepts the bytes; of the bytes a peer of the model sends, those
\* that are no character of the model are 0xFF and the bytes of length fields
ValidUtf8(bytes) == \A i \in 1 .. Len(bytes) : bytes[i] \in CharCodes

Repeat(c, n) == [i \in 1 .. n |-> c]

\* a length that no frame holds
TooLong == 128 * 16777216 - 1

\* u32 and u64, little-endian; the model's numbers are below 2^31
ToLe32(n) == <<n % 256, (n \div 256) % 256, (n \div 65536) % 256, (n \div 16777216) % 256>>
ToLe64(n) == ToLe32(n) \o <<0, 0, 0, 0>>
FromLe32(b) ==
    IF b[4] > 127 THEN TooLong
    ELSE b[1] + 256 * b[2] + 65536 * b[3] + 16777216 * b[4]
FromLe64(b) ==
    IF \E i \in 5 .. 8 : b[i] # 0 THEN TooLong ELSE FromLe32(SubSeq(b, 1, 4))

\* a header that carries the length least significant byte first
to_le_bytes(n) == ToLe32(n)

\* u32::to_be_bytes, u32::from_be_bytes
to_be_bytes(n) ==
    <<(n \div 16777216) % 256, (n \div 65536) % 256, (n \div 256) % 256, n % 256>>
from_be_bytes(b) ==
    IF b[1] > 127 THEN TooLong
    ELSE 16777216 * b[1] + 65536 * b[2] + 256 * b[3] + b[4]

SerializeString(s) == ToLe64(Len(s)) \o [i \in 1 .. Len(s) |-> CharCode[s[i]]]

\* bincode::serialize of a ClientMessage or a ServerMessage
Serialize(m) ==
    CASE m.type = "Join" -> ToLe32(0) \o SerializeString(m.username)
      [] m.type = "Chat" -> ToLe32(1) \o SerializeString(m.content)
      [] m.type = "Leave" -> ToLe32(2)
      [] m.type = "Ping" -> ToLe32(3)
      [] m.type = "Welcome" -> ToLe32(0) \o ToLe32(m.user_id)
      [] m.type = "UserJoined" -> ToLe32(1) \o SerializeString(m.username)
      [] m.type = "UserLeft" -> ToLe32(2) \o SerializeString(m.username)
      [] m.type = "ChatBroadcast" ->
            ToLe32(3) \o SerializeString(m.username) \o SerializeString(m.content)
               \o ToLe64(m.timestamp)
      [] m.type = "Error" -> ToLe32(4) \o SerializeString(m.message)
      [] m.type = "Pong" -> ToLe32(5)

\* a field could not be read
NoField == [ok |-> FALSE]

\* a String that starts at byte `at`: its value and the place of the next field
DeserializeString(b, at) ==
    IF Len(b) < at + 7 THEN NoField
    ELSE LET n == FromLe64(SubSeq(b, at, at + 7))
         IN  IF Len(b) - (at + 7) < n THEN NoField
             ELSE LET bytes == SubSeq(b, at + 8, at + 7 + n)
                  IN  IF ~ValidUtf8(bytes) THEN NoField
                      ELSE [ok |-> TRUE,
                            val |-> [i \in 1 .. n |-> CodeChar(bytes[i])],
                            next |-> at + 8 + n]

DeserializeU32(b, at) ==
    IF Len(b) < at + 3 THEN NoField
    ELSE [ok |-> TRUE, val |-> FromLe32(SubSeq(b, at, at + 3)), next |-> at + 4]

DeserializeU64(b, at) ==
    IF Len(b) < at + 7 THEN NoField
    ELSE [ok |-> TRUE, val |-> FromLe64(SubSeq(b, at, at + 7)), next |-> at + 8]

DeserializeClientMessage(b, variant) ==
    CASE variant = 0 ->
            LET u == DeserializeString(b, 5)
            IN  IF u.ok THEN Ok([type |-> "Join", username |-> u.val])
                ELSE Err("Serialization")
      [] variant = 1 ->
            LET c == DeserializeString(b, 5)
            IN  IF c.ok THEN Ok([type |-> "Chat", content |-> c.val])
                ELSE Err("Serialization")
      [] variant = 2 -> Ok([type |-> "Leave"])
      [] variant = 3 -> Ok([type |-> "Ping"])
      [] OTHER -> Err("Serialization")

DeserializeChatBroadcast(b) ==
    LET u == DeserializeString(b, 5)
    IN  IF ~u.ok THEN Err("Serialization")
        ELSE LET c == DeserializeString(b, u.next)
             IN  IF ~c.ok THEN Err("Serialization")
                 ELSE LET ts == DeserializeU64(b, c.next)
                      IN  IF ~ts.ok THEN Err("Serialization")
                          ELSE Ok([type |-> "ChatBroadcast", username |-> u.val,
                                   content |-> c.val, timestamp |-> ts.val])

DeserializeServerMessage(b, variant) ==
    CASE variant = 0 ->
            LET id == DeserializeU32(b, 5)
            IN  IF id.ok THEN Ok([type |-> "Welcome", user_id |-> id.val])
                ELSE Err("Serialization")
      [] variant = 1 ->
            LET u == DeserializeString(b, 5)
            IN  IF u.ok THEN Ok([type |-> "UserJoined", username |-> u.val])
                ELSE Err("Serialization")
      [] variant = 2 ->
            LET u == DeserializeString(b, 5)
            IN  IF u.ok THEN Ok([type |-> "UserLeft", username |-> u.val])
                ELSE Err("Serialization")
      [] variant = 3 -> DeserializeChatBroadcast(b)
      [] variant = 4 ->
            LET e == DeserializeString(b, 5)
            IN  IF e.ok THEN Ok([type |-> "Error", message |-> e.val])
                ELSE Err("Serialization")
      [] variant = 5 -> Ok([type |-> "Pong"])
      [] OTHER -> Err("Serialization")

\* bincode::deserialize::<M>: bytes after the value are allowed
Deserialize(M, b) ==
    IF Len(b) < 4 THEN Err("Serialization")
    ELSE IF M = "ClientMessage"
           THEN DeserializeClientMessage(b, FromLe32(SubSeq(b, 1, 4)))
           ELSE DeserializeServerMessage(b, FromLe32(SubSeq(b, 1, 4)))

\* a size check that lets every size through
NeverTooLarge(n) == FALSE

\* write_frame: payload.len() > MAX_FRAME_SIZE
PayloadTooLarge(n) == n > MAX_FRAME_SIZE

\* read_frame: length > MAX_FRAME_SIZE
LengthTooLarge(n) == n > MAX_FRAME_SIZE

\* a version check that lets every version through
NeverMismatch(version) == FALSE

\* read_frame: version != PROTOCOL_VERSION
VersionMismatch(version) == version # PROTOCOL_VERSION

\* FrameWriter::write_frame(msg) on a stream that holds `out` and takes every byte:
\* what it returns and what the stream holds afterwards
write_frame(out, msg) ==
    LET payload == Serialize(msg)
    IN  IF PayloadTooLarge(Len(payload))
          THEN [res |-> Err("FrameTooLarge"), out |-> out]
          ELSE [res |-> Ok("unit"),
                out |-> out \o <<PROTOCOL_VERSION>> \o to_be_bytes(Len(payload))
                           \o payload]

\* FrameReader::read_frame::<M> on a stream that holds `in`, whose writer has closed
\* it or not: whether the call returns with these bytes, what it returns and how many
\* bytes it has taken from the stream.  read_exact waits for the bytes it lacks and
\* fails with UnexpectedEof, having taken what there was, when the stream ends.
read_frame(M, in, closed) ==
    IF Len(in) < HEADER_SIZE
      THEN IF closed
             THEN [done |-> TRUE, res |-> Err("ConnectionClosed"), consumed |-> Len(in)]
             ELSE [done |-> FALSE]
      ELSE IF VersionMismatch(in[1])
             THEN [done |-> TRUE, res |-> Err("VersionMismatch"), consumed |-> HEADER_SIZE]
             ELSE LET length == from_be_bytes(SubSeq(in, 2, 5))
                  IN  IF LengthTooLarge(length)
                        THEN [done |-> TRUE, res |-> Err("FrameTooLarge"),
                              consumed |-> HEADER_SIZE]
                        ELSE IF Len(in) - HEADER_SIZE < length
                               THEN IF closed
                                      THEN [done |-> TRUE,
                                            res |-> Err("ConnectionClosed"),
                                            consumed |-> Len(in)]
                                      ELSE [done |-> FALSE]
                               ELSE [done |-> TRUE,
                                     res |-> Deserialize(M, SubSeq(in, HEADER_SIZE + 1,
                                                                   HEADER_SIZE + length)),
                                     consumed |-> HEADER_SIZE + length]

(***************************************************************************)
(* The codec between a client and a session, byte by byte.  Each end has   *)
(* the stream it reads from: the session's holds what the client wrote,    *)
(* the client's what the session wrote.  A peer that is no chat client may *)
(* write any bytes to the session.                                         *)
(***************************************************************************)
Reader == 1

\* the messages the client's FrameWriter is given
ClientFrames ==
    {[type |-> "Join", username |-> <<"a">>],
     [type |-> "Chat", content |-> <<"h", "i">>],
     [type |-> "Chat", content |-> Repeat("x", MAX_FRAME_SIZE - 12)],
     [type |-> "Chat", content |-> Repeat("x", MAX_FRAME_SIZE - 11)],
     [type |-> "Leave"],
     [type |-> "Ping"]}

\* the messages the session's FrameWriter is given
ServerFrames ==
    {[type |-> "Welcome", user_id |-> 1],
     [type |-> "UserJoined", username |-> <<"a">>],
     [type |-> "UserLeft", username |-> <<"b">>],
     [type |-> "ChatBroadcast", username |-> <<"a">>, content |-> <<"h", "i">>,
      timestamp |-> 1234567890],
     [type |-> "Error", message |-> <<"b", "a", "h">>],
     [type |-> "Pong"]}

\* what a peer that does not use FrameWriter may send
RawBytes ==
    {<<2>> \o to_be_bytes(4) \o ToLe32(3),
     <<2, 1, 0, 0, 0, 7>>,
     <<0, 0, 0, 0, 0>>,
     <<PROTOCOL_VERSION>> \o to_be_bytes(MAX_FRAME_SIZE + 1) \o <<3, 0, 0, 0>>,
     <<PROTOCOL_VERSION, 1, 0, 0, 0>>,
     <<PROTOCOL_VERSION, 0>>,
     <<PROTOCOL_VERSION>> \o to_be_bytes(4) \o ToLe32(9),
     <<PROTOCOL_VERSION>> \o to_be_bytes(13) \o ToLe32(0) \o ToLe64(1) \o <<255>>,
     <<PROTOCOL_VERSION>> \o to_be_bytes(10) \o <<3, 0>>}

InFlight == Len(sentFrames["server"]) + Len(sentFrames["client"])

\* the end e is handed msg to write; the history keeps what the frame was made from
SendFrame(e, msg) ==
    LET r == write_frame(wire[e], msg)
    IN  /\ wire' = [wire EXCEPT ![e] = r.out]
        /\ frameRes' = [frameRes EXCEPT
                          ![e] = [op |-> "write_frame", msg |-> msg, res |-> r.res]]
        /\ sentFrames' =
              IF r.res.ok
                THEN [sentFrames EXCEPT
                        ![e] = Append(@, [framed |-> TRUE, msg |-> msg,
                                          len |-> Len(r.out) - Len(wire[e])])]
                ELSE sentFrames

\* the history after n bytes were taken from the stream of end e
AfterRead(e, n) ==
    IF sentFrames[e] # << >> /\ Head(sentFrames[e]).len = n
      THEN [sentFrames EXCEPT ![e] = Tail(@)]
      ELSE [sentFrames EXCEPT
              ![e] = IF Len(wire[e]) = n THEN << >>
                     ELSE <<[framed |-> FALSE, len |-> Len(wire[e]) - n]>>]

\* the reader of end e has called read_frame and got r
TakeFrame(e, r) ==
    /\ wire' = [wire EXCEPT ![e] = SubSeq(@, r.consumed + 1, Len(@))]
    /\ frameRes' = [frameRes EXCEPT
                      ![e] = [op |-> "read_frame", res |-> r.res,
                              consumed |-> r.consumed]]
    /\ sentFrames' = AfterRead(e, r.consumed)

\* the message type the reader of end e asks read_frame for
MessageType(e) == IF e = "server" THEN "ClientMessage" ELSE "ServerMessage"

\* the messages the writer to end e is given
Frames(e) == IF e = "server" THEN ClientFrames ELSE ServerFrames

\* the stream end e reads from has been closed by its writer
Closed(e) == e = "server" /\ peerClosed

\* the reader of end e has had an error; it reads no further, and its peer stops
\* writing
Failed(e) == frameRes[e].op = "read_frame" /\ ~frameRes[e].res.ok

\* FrameWriter::write_frame(msg) by the writer to end e
WriteFrame(e, msg) ==
    /\ ~Closed(e)
    /\ ~Failed(e)
    /\ InFlight < MaxInFlight
    /\ SendFrame(e, msg)
    /\ UNCHANGED <<serverVars, peerClosed>>

\* a peer writes bytes of its own making to the session
WriteRaw(bytes) ==
    /\ ~peerClosed
    /\ ~Failed("server")
    /\ InFlight < MaxInFlight
    /\ wire' = [wire EXCEPT !["server"] = @ \o bytes]
    /\ sentFrames' = [sentFrames EXCEPT
                        !["server"] = Append(@, [framed |-> FALSE, len |-> Len(bytes)])]
    /\ UNCHANGED <<serverVars, peerClosed, frameRes>>

\* the peer closes its socket
CloseStream ==
    /\ ~peerClosed
    /\ peerClosed' = TRUE
    /\ UNCHANGED <<serverVars, wire, frameRes, sentFrames>>

\* FrameReader::read_frame::<M>() by the reader of end e returns
ReadFrame(e) ==
    LET r == read_frame(MessageType(e), wire[e], Closed(e))
    IN  /\ ~Failed(e)
        /\ r.done
        /\ TakeFrame(e, r)
        /\ UNCHANGED <<serverVars, peerClosed>>

NextCodec ==
    \/ \E e \in Ends : \E msg \in Frames(e) : WriteFrame(e, msg) /\ SideIdle
    \/ \E bytes \in RawBytes : WriteRaw(bytes) /\ SideIdle
    \/ CloseStream /\ SideIdle
    \/ \E e \in Ends : ReadFrame(e) /\ SideIdle

SpecCodec == Init /\ [][NextCodec]_vars

(***************************************************************************)
(* A session in its loop that reads what its peer writes, one frame or one *)
(* byte string at a time, and acts on what read_frame returns.  The        *)
(* session's own writes reach the socket.                                  *)
(***************************************************************************)
\* the peer writes when the session has read what it wrote before
PeerMayWrite ==
    /\ Alive
    /\ pc[Reader] = "active"
    /\ ~peerClosed
    /\ wire["server"] = << >>

\* the client calls writer.send(msg)
ClientSend(msg) ==
    /\ PeerMayWrite
    /\ SendFrame("server", msg)
    /\ UNCHANGED <<serverVars, peerClosed>>

PeerSendRaw(bytes) == PeerMayWrite /\ WriteRaw(bytes)

PeerClose ==
    /\ Alive
    /\ pc[Reader] = "active"
    /\ CloseStream

\* the loop's reader.recv::<ClientMessage>() returns, and the loop acts on it
SessionRecv(s) ==
    LET r == read_frame("ClientMessage", wire["server"], peerClosed)
    IN  /\ s = Reader
        /\ pc[s] = "active"
        /\ r.done
        /\ TakeFrame("server", r)
        /\ UNCHANGED peerClosed
        /\ IF r.res.ok
             THEN CASE r.res.val.type = "Chat" -> RecvChat(s, Len(r.res.val.content), TRUE)
                    [] r.res.val.type = "Ping" -> RecvPing(s, TRUE)
                    [] r.res.val.type = "Join" -> RecvJoinAgain(s, TRUE)
                    [] r.res.val.type = "Leave" -> RecvBreak(s, "Leave")
             ELSE RecvBreak(s, IF r.res.err = "ConnectionClosed"
                                 THEN "ConnectionClosed" ELSE "RecvError")

NextReader ==
    \/ \E msg \in ClientFrames : ClientSend(msg) /\ SideIdle
    \/ \E bytes \in RawBytes : PeerSendRaw(bytes) /\ SideIdle
    \/ PeerClose /\ SideIdle
    \/ \E s \in Sessions : SessionRecv(s) /\ SideIdle
    \/ \E s \in Sessions : BroadcastRecv(s, TRUE) /\ WireIdle /\ SideIdle
    \/ \E s \in Sessions : HandlerRemoveUser(s) /\ WireIdle /\ SideIdle
    \/ \E s \in Sessions : HandlerCleanup(s) /\ WireIdle /\ SideIdle
    \/ \E s \in Sessions : HandlerDone(s) /\ WireIdle /\ SideIdle

SpecReader == InitTwoActive /\ [][NextReader]_vars

(***************************************************************************)
(* ClientMessage::validate on its own, applied to messages whose lengths   *)
(* lie on both sides of the limits.  String::len counts bytes; the model's *)
(* characters are one byte each.                                           *)
(***************************************************************************)
\* how far the lengths of the inputs go beyond the limits
ValidateSlack == 30

ValidateInputs ==
    {[type |-> "Join", username |-> Repeat("a", n)] :
        n \in 0 .. (MAX_USERNAME_LEN + ValidateSlack)}
    \cup {[type |-> "Chat", content |-> Repeat("x", n)] :
            n \in {0} \cup ((MAX_MESSAGE_LEN - ValidateSlack) ..
                            (MAX_MESSAGE_LEN + ValidateSlack))}
    \cup {[type |-> "Leave"], [type |-> "Ping"]}

validate(msg) ==
    CASE msg.type = "Join" ->
            IF ValidateJoin(msg.username) THEN Ok("unit") ELSE Err("UsernameTooLong")
      [] msg.type = "Chat" ->
            IF ValidateChat(Len(msg.content)) THEN Ok("unit") ELSE Err("MessageTooLong")
      [] OTHER -> Ok("unit")

\* msg.validate() is called
Validate(msg) ==
    /\ frameRes' = [frameRes EXCEPT
                      !["server"] = [op |-> "validate", msg |-> msg,
                                     res |-> validate(msg)]]
    /\ UNCHANGED <<serverVars, wire, peerClosed, sentFrames>>

NextValidate == \E msg \in ValidateInputs : Validate(msg) /\ SideIdle

SpecValidate == Init /\ [][NextValidate]_vars

(***************************************************************************)
(* Chat in the loop: two sessions in their loops whose clients send Chat   *)
(* messages and may leave.  select! has no `biased`: it polls its ready    *)
(* branches in random order on every pass, so a broadcast_rx.recv() that   *)
(* stays ready is not passed over for ever.                                *)
(***************************************************************************)
\* Chat messages the clients send in SpecChat
MaxChats == 3

InitChat == ServedFrameOf(MaxChats) /\ TwoInLoop

NextChat ==
    \/ \E s \in Sessions, c \in InputContents, ok \in BOOLEAN :
          RecvChat(s, c, ok) /\ WireIdle /\ SideIdle
    \/ \E s \in Sessions, why \in {"Leave", "ConnectionClosed"} :
          RecvBreak(s, why) /\ WireIdle /\ SideIdle
    \/ \E s \in Sessions, ok \in BOOLEAN : BroadcastRecv(s, ok) /\ WireIdle /\ SideIdle
    \/ \E s \in Sessions : BroadcastLagged(s) /\ WireIdle /\ SideIdle
    \/ \E s \in Sessions : HandlerRemoveUser(s) /\ WireIdle /\ SideIdle
    \/ \E s \in Sessions : HandlerCleanup(s) /\ WireIdle /\ SideIdle
    \/ \E s \in Sessions : HandlerDone(s) /\ WireIdle /\ SideIdle

BroadcastBranchFair ==
    \A s \in Sessions :
       /\ WF_vars(\E ok \in BOOLEAN : BroadcastRecv(s, ok) /\ WireIdle /\ SideIdle)
       /\ WF_vars(BroadcastLagged(s) /\ WireIdle /\ SideIdle)

SpecChat == InitChat /\ [][NextChat]_vars /\ BroadcastBranchFair

(***************************************************************************)
(* The order of a session's writes: the loop of SpecChat with a history of *)
(* what was published, and of what one session, the first, took from its   *)
(* connection and wrote.  Every Chat has a content length of its own, so   *)
(* that events can be told apart.                                          *)
(***************************************************************************)
\* the session whose requests and writes the history keeps
Observed == Reader

\* the history with the entries of a step of session s
Noted(s, entries) == IF s = Observed THEN trace \o entries ELSE trace

Took(s, req) == [op |-> "take", to |-> s, req |-> req]
Published(ev) == [op |-> "publish", ev |-> ev]
\* the frame this step hands to send
Wrote == [op |-> "write", to |-> written'.to, msg |-> written'.msg]

\* the lengths the next Chat may have: one within the limit, one beyond it
NextContents == {inLeft, MAX_MESSAGE_LEN + inLeft}

OrderChat(s, c, ok) ==
    /\ RecvChat(s, c, ok)
    /\ trace' = IF ValidateChat(c)
                  THEN Append(trace, Published([type |-> "Chat", username |-> username[s],
                                                content |-> c]))
                  ELSE Noted(s, <<Took(s, "Chat"), Wrote>>)

OrderPing(s, ok) ==
    /\ RecvPing(s, ok)
    /\ trace' = Noted(s, <<Took(s, "Ping"), Wrote>>)

OrderJoinAgain(s, ok) ==
    /\ RecvJoinAgain(s, ok)
    /\ trace' = Noted(s, <<Took(s, "Join"), Wrote>>)

OrderBroadcastRecv(s, ok) ==
    /\ BroadcastRecv(s, ok)
    /\ trace' = Noted(s, <<Wrote>>)

OrderCleanup(s) ==
    /\ HandlerCleanup(s)
    /\ trace' = IF rmRes[s].tag = "some"
                  THEN Append(trace, Published([type |-> "UserLeft",
                                                username |-> rmRes[s].username]))
                  ELSE trace

\* the byte streams are not modelled here
NoBytes == WireIdle /\ UNCHANGED <<inTransit, recvBuf, clientVars>>

NextOrder ==
    \/ \E s \in Sessions, ok \in BOOLEAN :
          \E c \in NextContents : OrderChat(s, c, ok) /\ NoBytes
    \/ \E s \in Sessions, ok \in BOOLEAN : OrderPing(s, ok) /\ NoBytes
    \/ \E s \in Sessions, ok \in BOOLEAN : OrderJoinAgain(s, ok) /\ NoBytes
    \/ \E s \in Sessions : RecvBreak(s, "Leave") /\ WireIdle /\ SideIdle
    \/ \E s \in Sessions, ok \in BOOLEAN : OrderBroadcastRecv(s, ok) /\ NoBytes
    \/ \E s \in Sessions : BroadcastLagged(s) /\ WireIdle /\ SideIdle
    \/ \E s \in Sessions : HandlerRemoveUser(s) /\ WireIdle /\ SideIdle
    \/ \E s \in Sessions : OrderCleanup(s) /\ NoBytes
    \/ \E s \in Sessions : HandlerDone(s) /\ WireIdle /\ SideIdle

SpecOrder == InitChat /\ [][NextOrder]_vars

(***************************************************************************)
(* The loop's select! and the frame reader.  The client's frames reach the *)
(* server's socket in pieces.  A poll of the pending reader.recv() takes   *)
(* the bytes read_exact asks for out of the socket; they are kept in the   *)
(* future (the header array, read_exact's position in the payload buffer). *)
(* When select! returns with another branch the future is dropped, and the *)
(* next pass of the loop calls read_frame anew.                            *)
(***************************************************************************)
CancelFrames == {[type |-> "Ping"], [type |-> "Chat", content |-> <<"h", "i">>]}

\* the client's writer.send(msg) has returned Ok: the whole frame is on its way
ClientWrites(msg) ==
    LET r == write_frame(<< >>, msg)
    IN  /\ Alive
        /\ pc[Reader] = "active"
        /\ Len(sentFrames["server"]) < inLeft
        /\ r.res.ok
        /\ inTransit' = inTransit \o r.out
        /\ sentFrames' = [sentFrames EXCEPT
                            !["server"] = Append(@, [framed |-> TRUE, msg |-> msg,
                                                     len |-> Len(r.out)])]
        /\ UNCHANGED <<serverVars, wire, peerClosed, frameRes, recvBuf, trace, clientVars>>

\* the next n bytes arrive at the server's socket
Arrive(n) ==
    /\ n \in 1 .. Len(inTransit)
    /\ wire' = [wire EXCEPT !["server"] = @ \o SubSeq(inTransit, 1, n)]
    /\ inTransit' = SubSeq(inTransit, n + 1, Len(inTransit))
    /\ UNCHANGED <<serverVars, peerClosed, frameRes, sentFrames, recvBuf, trace, clientVars>>

\* what the pending read_frame has after it took from the socket what it asks for
PolledRead == read_frame("ClientMessage", recvBuf \o wire["server"], FALSE)

\* reader.recv() is polled and stays pending: read_exact has taken the bytes there
\* were and waits for the rest
RecvPending(s) ==
    /\ Alive
    /\ s = Reader
    /\ pc[s] = "active"
    /\ wire["server"] # << >>
    /\ ~PolledRead.done
    /\ recvBuf' = recvBuf \o wire["server"]
    /\ wire' = [wire EXCEPT !["server"] = << >>]
    /\ UNCHANGED <<serverVars, peerClosed, frameRes, sentFrames, inTransit, trace,
                   clientVars>>

\* reader.recv() returns and select! takes that branch: the loop acts on the result
RecvReturns(s) ==
    LET r == PolledRead
    IN  /\ s = Reader
        /\ pc[s] = "active"
        /\ r.done
        /\ wire' = [wire EXCEPT
                      !["server"] = SubSeq(recvBuf \o @, r.consumed + 1,
                                           Len(recvBuf) + Len(@))]
        /\ recvBuf' = << >>
        /\ frameRes' = [frameRes EXCEPT
                          !["server"] = [op |-> "read_frame", res |-> r.res,
                                         consumed |-> r.consumed]]
        /\ sentFrames' = [sentFrames EXCEPT
                            !["server"] = IF @ = << >> THEN @ ELSE Tail(@)]
        /\ UNCHANGED <<peerClosed, inTransit, trace, clientVars>>
        /\ IF r.res.ok
             THEN CASE r.res.val.type = "Chat" -> RecvChat(s, Len(r.res.val.content), TRUE)
                    [] r.res.val.type = "Ping" -> RecvPing(s, TRUE)
                    [] r.res.val.type = "Join" -> RecvJoinAgain(s, TRUE)
                    [] r.res.val.type = "Leave" -> RecvBreak(s, "Leave")
             ELSE RecvBreak(s, "RecvError")

\* select! returns with another branch of session s: its reader.recv() is dropped
DropRecv(s) ==
    /\ recvBuf' = IF s = Reader THEN << >> ELSE recvBuf
    /\ UNCHANGED <<wire, peerClosed, frameRes, sentFrames, inTransit, trace, clientVars>>

\* the other session publishes a Chat
OtherChat(s) ==
    /\ s # Reader
    /\ RecvChat(s, Len(<<"h", "i">>), TRUE)
    /\ WireIdle
    /\ SideIdle

NextCancel ==
    \/ \E msg \in CancelFrames : ClientWrites(msg)
    \/ \E n \in 1 .. (HEADER_SIZE + MAX_FRAME_SIZE) : Arrive(n)
    \/ \E s \in Sessions : RecvPending(s)
    \/ \E s \in Sessions : RecvReturns(s)
    \/ \E s \in Sessions : OtherChat(s)
    \/ \E s \in Sessions : BroadcastRecv(s, TRUE) /\ DropRecv(s)
    \/ \E s \in Sessions : BroadcastLagged(s) /\ DropRecv(s)
    \/ \E s \in Sessions : HandlerRemoveUser(s) /\ WireIdle /\ SideIdle
    \/ \E s \in Sessions : HandlerCleanup(s) /\ WireIdle /\ SideIdle
    \/ \E s \in Sessions : HandlerDone(s) /\ WireIdle /\ SideIdle

MaxCancelMsgs == 2

InitCancel == ServedFrameOf(MaxCancelMsgs) /\ TwoInLoop

SpecCancel == InitCancel /\ [][NextCancel]_vars

(***************************************************************************)
(* The client.  The front end (ChatClient, called from the UI thread) and  *)
(* the network task (network_loop, connect_and_run) exchange UiCommands    *)
(* and NetworkEvents over two FIFO channels.  The server is the client's   *)
(* environment here: whether the connection is made, what it answers to    *)
(* Join and what it sends afterwards are inputs.  The command sender is    *)
(* kept alive by the network thread itself, so cmd_rx.recv() never returns *)
(* None while the task runs.                                               *)
(***************************************************************************)
MAX_MESSAGES == 1000

\* Connect commands the front end may send
MaxAttempts == 2
\* commands that may wait in the channel
MaxCmds == 2

\* the server and the byte streams take no step
ServerIdle == UNCHANGED <<serverVars, codecVars, trace, inTransit, recvBuf>>

Disconnected == [tag |-> "Disconnected"]
Connecting == [tag |-> "Connecting"]

\* what may be typed into the username field
TypedNames == {<<"a">>, << >>, <<"a", "!">>, LongName}

ConnectFailedEvent(reason) == [type |-> "ConnectFailed", reason |-> reason]
DisconnectedEvent(reason) == [type |-> "Disconnected", reason |-> reason]

TerminalTypes == {"ConnectFailed", "Disconnected"}

\* an add_message that lets the history fill one entry further before it evicts
add_message_late(msgs, msg) ==
    Append(IF Len(msgs) > MAX_MESSAGES THEN Tail(msgs) ELSE msgs, msg)

\* ChatClient::add_message
add_message(msgs, msg) ==
    Append(IF Len(msgs) >= MAX_MESSAGES THEN Tail(msgs) ELSE msgs, msg)

\* ChatClient::add_system_message
add_system_message(msgs, content) ==
    add_message(msgs, [username |-> "system", content |-> content, is_system |-> TRUE])

\* Vec::retain(|u| u != username)
RECURSIVE Retain(_, _)
Retain(list, name) ==
    IF list = << >> THEN << >>
    ELSE IF Head(list) = name THEN Retain(Tail(list), name)
    ELSE <<Head(list)>> \o Retain(Tail(list), name)

Contains(list, name) == \E i \in 1 .. Len(list) : list[i] = name

\* ChatClient::handle_event on the fields c of the client
handle_event(c, event) ==
    CASE event.type = "Connected" ->
           IF c.state.tag = "Connecting"
             THEN [c EXCEPT !.state = [tag |-> "Connected", user_id |-> event.user_id,
                                       username |-> c.username],
                            !.error_message = "None",
                            !.online_users = event.online_users,
                            !.messages = add_system_message(@, <<"connected">>)]
             ELSE c
      [] event.type = "ConnectFailed" ->
           [c EXCEPT !.state = Disconnected, !.error_message = event.reason]
      [] event.type = "ChatMessage" ->
           [c EXCEPT !.messages = add_message(@, [username |-> event.username,
                                                  content |-> event.content,
                                                  is_system |-> FALSE])]
      [] event.type = "UserJoined" ->
           [c EXCEPT !.online_users = IF Contains(@, event.username)
                                        THEN @ ELSE Append(@, event.username),
                     !.messages = add_system_message(@, <<event.username, "joined">>)]
      [] event.type = "UserLeft" ->
           [c EXCEPT !.online_users = Retain(@, event.username),
                     !.messages = add_system_message(@, <<event.username, "left">>)]
      [] event.type = "Error" ->
           [c EXCEPT !.error_message = event.message]
      [] event.type = "Disconnected" ->
           [c EXCEPT !.state = Disconnected,
                     !.online_users = << >>,
                     !.messages = add_system_message(@, <<"disconnected", event.reason>>)]

RECURSIVE HandleAll(_, _)
HandleAll(c, evs) ==
    IF evs = << >> THEN c ELSE HandleAll(handle_event(c, Head(evs)), Tail(evs))

ClientFields ==
    [state |-> state, username |-> clientUsername, messages |-> messages,
     online_users |-> online_users, error_message |-> error_message]

\* ChatClient::poll_events: handles, in order, the k events that are in the channel
\* when it is called
PollEvents(k) ==
    LET c == HandleAll(ClientFields, SubSeq(event_rx, 1, k))
    IN  /\ k \in 1 .. Len(event_rx)
        /\ state' = c.state
        /\ messages' = c.messages
        /\ online_users' = c.online_users
        /\ error_message' = c.error_message
        /\ event_rx' = SubSeq(event_rx, k + 1, Len(event_rx))
        /\ UNCHANGED <<clientUsername, cmd_rx, netPc, netLeft, attempts, terminals>>
        /\ ServerIdle

\* the user edits the username field of the login panel
TypeUsername(u) ==
    /\ state.tag # "Connected"
    /\ clientUsername' = u
    /\ UNCHANGED <<state, messages, online_users, error_message, cmd_rx, event_rx, netPc,
                   netLeft, attempts, terminals>>
    /\ ServerIdle

\* a connect that does not look at the state
ConnectAnyState ==
    /\ attempts < MaxAttempts
    /\ IF ~ValidateUsername(clientUsername)
         THEN /\ error_message' = "username"
              /\ UNCHANGED <<state, cmd_rx, attempts>>
         ELSE /\ state' = Connecting
              /\ error_message' = "None"
              /\ cmd_rx' = Append(cmd_rx, [type |-> "Connect",
                                           username |-> clientUsername])
              /\ attempts' = attempts + 1
    /\ UNCHANGED <<clientUsername, messages, online_users, event_rx, netPc, netLeft,
                   terminals>>
    /\ ServerIdle

\* ChatClient::connect
Connect ==
    /\ attempts < MaxAttempts
    /\ IF state.tag = "Disconnected"
         THEN IF ~ValidateUsername(clientUsername)
                THEN /\ error_message' = "username"
                     /\ UNCHANGED <<state, cmd_rx, attempts>>
                ELSE /\ state' = Connecting
                     /\ error_message' = "None"
                     /\ cmd_rx' = Append(cmd_rx, [type |-> "Connect",
                                                  username |-> clientUsername])
                     /\ attempts' = attempts + 1
         ELSE UNCHANGED <<state, error_message, cmd_rx, attempts>>
    /\ UNCHANGED <<clientUsername, messages, online_users, event_rx, netPc, netLeft,
                   terminals>>
    /\ ServerIdle

\* ChatClient::disconnect
Disconnect ==
    /\ Len(cmd_rx) < MaxCmds
    /\ cmd_rx' = IF state.tag = "Connected"
                   THEN Append(cmd_rx, [type |-> "Disconnect"]) ELSE cmd_rx
    /\ UNCHANGED <<uiVars, event_rx, netPc, netLeft, attempts, terminals>>
    /\ ServerIdle

\* ChatClient::send_message with a non-empty input_text
SendMessage ==
    /\ Len(cmd_rx) < MaxCmds
    /\ cmd_rx' = IF state.tag = "Connected"
                   THEN Append(cmd_rx, [type |-> "SendChat"]) ELSE cmd_rx
    /\ UNCHANGED <<uiVars, event_rx, netPc, netLeft, attempts, terminals>>
    /\ ServerIdle

\* event_tx.send(event)
Emit(event) ==
    /\ event_rx' = Append(event_rx, event)
    /\ terminals' = IF event.type \in TerminalTypes THEN terminals + 1 ELSE terminals

NoEvent == UNCHANGED <<event_rx, terminals>>

\* network_loop: cmd_rx.recv() while no connection is attempted
NetTakeCommand ==
    /\ netPc = "idle"
    /\ cmd_rx # << >>
    /\ cmd_rx' = Tail(cmd_rx)
    /\ IF Head(cmd_rx).type = "Connect"
         THEN netPc' = "connect" /\ terminals' = 0
         ELSE UNCHANGED <<netPc, terminals>>
    /\ UNCHANGED <<uiVars, event_rx, netLeft, attempts>>
    /\ ServerIdle

\* connect_and_run: TcpTransport::connect
NetConnect(ok) ==
    /\ netPc = "connect"
    /\ IF ok
         THEN netPc' = "join" /\ NoEvent
         ELSE netPc' = "returned_ok" /\ Emit(ConnectFailedEvent("connect"))
    /\ UNCHANGED <<uiVars, cmd_rx, netLeft, attempts>>
    /\ ServerIdle

\* connect_and_run: conn.send(Join).await?
NetSendJoin(ok) ==
    /\ netPc = "join"
    /\ netPc' = IF ok THEN "welcome" ELSE "returned_err"
    /\ NoEvent
    /\ UNCHANGED <<uiVars, cmd_rx, netLeft, attempts>>
    /\ ServerIdle

\* what may come back for the Join
JoinReplies == {"Welcome", "Error", "Pong", "RecvError"}

\* connect_and_run: conn.recv().await? and the match on the reply
NetRecvWelcome(reply) ==
    /\ netPc = "welcome"
    /\ CASE reply = "Welcome" ->
              /\ netPc' = "loop"
              /\ Emit([type |-> "Connected", user_id |-> 1, online_users |-> << >>])
         [] reply = "Error" ->
              /\ netPc' = "returned_ok"
              /\ Emit(ConnectFailedEvent("join"))
         [] reply = "RecvError" ->
              /\ netPc' = "returned_err"
              /\ NoEvent
         [] OTHER ->
              /\ netPc' = "returned_ok"
              /\ Emit(ConnectFailedEvent("protocol"))
    /\ UNCHANGED <<uiVars, cmd_rx, netLeft, attempts>>
    /\ ServerIdle

\* what the loop's reader.recv() may return
LoopResults ==
    {"ChatBroadcast", "UserJoined", "UserLeft", "Error", "Pong", "Welcome", "Shutdown",
     "ConnectionClosed", "RecvError"}

\* the event the loop sends for a server message
LoopEvent(msg) ==
    CASE msg = "ChatBroadcast" -> [type |-> "ChatMessage", username |-> <<"b">>,
                                   content |-> <<"h", "i">>]
      [] msg = "UserJoined" -> [type |-> "UserJoined", username |-> <<"b">>]
      [] msg = "UserLeft" -> [type |-> "UserLeft", username |-> <<"b">>]
      [] msg = "Error" -> [type |-> "Error", message |-> "server"]
      [] msg = "Shutdown" -> DisconnectedEvent("shutdown")

\* connect_and_run, loop: the branch reader.recv() with result msg; event is what is
\* sent for it
LoopRecv(msg, event) ==
    /\ netPc = "loop"
    /\ CASE msg \in {"ChatBroadcast", "UserJoined", "UserLeft", "Error"} ->
              /\ Emit(event)
              /\ UNCHANGED netPc
         [] msg \in {"Pong", "Welcome"} ->
              /\ NoEvent
              /\ UNCHANGED netPc
         [] msg = "Shutdown" ->
              /\ Emit(event)
              /\ netPc' = "returned_ok"
         [] OTHER ->
              /\ NoEvent
              /\ netPc' = "returned_ok"
    /\ UNCHANGED <<uiVars, cmd_rx, attempts>>
    /\ ServerIdle

NetLoopRecv(msg) ==
    /\ netLeft > 0
    /\ netLeft' = netLeft - 1
    /\ LoopRecv(msg, IF msg \in {"ChatBroadcast", "UserJoined", "UserLeft", "Error",
                                  "Shutdown"}
                       THEN LoopEvent(msg) ELSE [type |-> "none"])

\* network_loop that reports only a connect_and_run that returned Ok
NetReturnOnlyOk ==
    /\ netPc \in {"returned_ok", "returned_err"}
    /\ IF netPc = "returned_ok" THEN Emit(DisconnectedEvent("normal")) ELSE NoEvent
    /\ netPc' = "idle"
    /\ UNCHANGED <<uiVars, cmd_rx, netLeft, attempts>>
    /\ ServerIdle

\* connect_and_run, loop: the branch heartbeat.tick(); a Ping that was sent leaves the
\* task where it was
NetHeartbeat(ok) ==
    /\ netPc = "loop"
    /\ netPc' = IF ok THEN netPc ELSE "returned_ok"
    /\ NoEvent
    /\ UNCHANGED <<uiVars, cmd_rx, netLeft, attempts>>
    /\ ServerIdle

\* connect_and_run, loop: the branch cmd_rx.recv()
NetLoopCmd(ok) ==
    /\ netPc = "loop"
    /\ cmd_rx # << >>
    /\ cmd_rx' = Tail(cmd_rx)
    /\ netPc' = CASE Head(cmd_rx).type = "SendChat" -> IF ok THEN netPc ELSE "returned_ok"
                  [] Head(cmd_rx).type = "Disconnect" -> "returned_ok"
                  [] Head(cmd_rx).type = "Connect" -> netPc
    /\ NoEvent
    /\ UNCHANGED <<uiVars, netLeft, attempts>>
    /\ ServerIdle

\* network_loop: connect_and_run has returned, Ok or Err; Disconnected is sent
NetReturn ==
    /\ netPc \in {"returned_ok", "returned_err"}
    /\ Emit(DisconnectedEvent(IF netPc = "returned_ok" THEN "normal" ELSE "error"))
    /\ netPc' = "idle"
    /\ UNCHANGED <<uiVars, cmd_rx, netLeft, attempts>>
    /\ ServerIdle

NextClient ==
    \/ \E u \in TypedNames : TypeUsername(u)
    \/ Connect
    \/ Disconnect
    \/ SendMessage
    \/ \E k \in 1 .. (MaxLoopMsgs + 3 * MaxAttempts) : PollEvents(k)
    \/ NetTakeCommand
    \/ \E ok \in BOOLEAN : NetConnect(ok)
    \/ \E ok \in BOOLEAN : NetSendJoin(ok)
    \/ \E reply \in JoinReplies : NetRecvWelcome(reply)
    \/ \E msg \in LoopResults : NetLoopRecv(msg)
    \/ \E ok \in BOOLEAN : NetHeartbeat(ok)
    \/ \E ok \in BOOLEAN : NetLoopCmd(ok)
    \/ NetReturn

\* the network task runs on its own thread; the front end polls on every frame and
\* asks for a repaint at least every 100 ms
ClientFair ==
    /\ WF_vars(NetReturn)
    /\ WF_vars(\E k \in 1 .. (MaxLoopMsgs + 3 * MaxAttempts) : PollEvents(k))

SpecClient == Init /\ [][NextClient]_vars /\ ClientFair

(***************************************************************************)
(* The message history.  One client connects and joins, then chat          *)
(* messages arrive one after the other and are polled; their contents      *)
(* are numbered in the order of arrival.                                   *)
(***************************************************************************)
\* chat messages that arrive beyond a full history
HistorySlack == 5

\* the number of the chat message that arrived last
Arrived ==
    IF messages = << >> \/ messages[Len(messages)].is_system
      THEN 0 ELSE messages[Len(messages)].content

HistoryRecv ==
    /\ event_rx = << >>
    /\ state.tag = "Connected"
    /\ Arrived < MAX_MESSAGES + HistorySlack
    /\ LoopRecv("ChatBroadcast", [type |-> "ChatMessage", username |-> <<"b">>,
                                  content |-> Arrived + 1])
    /\ UNCHANGED netLeft

NextHistory ==
    \/ TypeUsername(<<"a">>) /\ clientUsername = << >>
    \/ Connect
    \/ NetTakeCommand
    \/ NetConnect(TRUE)
    \/ NetSendJoin(TRUE)
    \/ NetRecvWelcome("Welcome")
    \/ PollEvents(1)
    \/ HistoryRecv

SpecHistory == Init /\ [][NextHistory]_vars

(***************************************************************************)
(* Properties.                                                             *)
(***************************************************************************)
\* the positions of a handler between add_user's insert into usernames and
\* remove_user's removal from it
HoldingPcs == {"au_users", "au_insert", "au_some", "pub_joined", "active", "ru_lock",
               "ru_remove", "ru_names", "ru_names_remove"}

\* session s has obtained an id for name u and has not given the name back
HoldsName(s, u) == username[s] = u /\ user_id[s] # 0 /\ pc[s] \in HoldingPcs

\* C1: of two concurrent Joins for the same name that is not registered, exactly one
\* obtains a user_id: the add_user that finds the name free gets a fresh id, one that
\* finds it held by another session gets nothing, no two sessions ever hold one name,
\* and the handler that got nothing answers with an Error and returns.
C1_Step ==
    /\ \A s, t \in Sessions :
          (s # t /\ username'[s] = username'[t] /\ user_id'[s] # 0 /\ user_id'[t] # 0)
             => ~(pc'[s] \in HoldingPcs /\ pc'[t] \in HoldingPcs)
    /\ \A t \in Sessions :
          (pc[t] = "au_check" /\ pc'[t] # "au_check" /\ runPc' # "exited") =>
             IF \E s \in Sessions \ {t} : HoldsName(s, username[t])
               THEN pc'[t] = "au_none" /\ user_id'[t] = 0 /\ usernames' = usernames
               ELSE (username[t] \notin DOMAIN usernames) =>
                       /\ pc'[t] = "au_users"
                       /\ user_id'[t] # 0
                       /\ usernames'[username[t]] = user_id'[t]
    /\ \A t \in Sessions :
          (pc[t] = "au_none" /\ pc'[t] # "au_none" /\ runPc' # "exited") =>
             /\ written'.to = t
             /\ written'.msg = ErrorMsg("username taken")
             /\ pc'[t] = "returned"
             /\ user_id'[t] = 0

C1_ExactlyOneJoinWins == [][C1_Step]_vars

\* the winner is still inside add_user when the loser has its Error
C1_Witness ==
    \E s, t \in Sessions :
       /\ s # t
       /\ username[s] = username[t]
       /\ pc[s] = "au_users"
       /\ user_id[s] # 0
       /\ pc[t] = "returned"
       /\ user_id[t] = 0
       /\ written = [to |-> t, msg |-> ErrorMsg("username taken"), ok |-> TRUE]

\* C2: in every reachable state, the states between the steps of add_user and
\* remove_user included, the two maps hold the same set of (id, username) pairs.
C2_MapsAlwaysConsistent == UsersPairs = UsernamesPairs

\* C3: no two live users in the registry have the same username.
C3_LiveUsernamesUnique ==
    \A i, j \in DOMAIN users : i # j => users[i] # users[j]

\* two live users, one with an id allocated after that of a user who has left
C3_Witness ==
    /\ Cardinality(DOMAIN users) = 2
    /\ \E id \in DOMAIN leftPublished : \E i \in DOMAIN users : i > id

\* C4: under concurrent try_add_connection callers interleaved with
\* remove_connection, the connection counter never exceeds MAX_CONNECTIONS.
C4_CounterWithinLimit == connection_count <= MAX_CONNECTIONS

\* the counter is at the limit while a caller is about to compare_exchange from a
\* stale value below it
C4_Witness ==
    /\ connection_count = MAX_CONNECTIONS
    /\ \E c \in Tasks : tac[c].pc = "cas" /\ tac[c].current < MAX_CONNECTIONS

\* C5: a connection accepted while the counter is at MAX_CONNECTIONS is refused: the
\* accept loop sends it one Error (or the write fails), drops it without subscribing
\* or spawning a handler, and leaves the counter, the registry and the id generator
\* as they were; nothing is written to it afterwards.
C5_Step ==
    /\ (runPc = "admit" /\ tac[0].pc = "cas" /\ tac[0].current >= MAX_CONNECTIONS
          /\ tac'[0] # tac[0])
         => (tac'[0].pc = "false" /\ connection_count' = connection_count)
    /\ \A s \in Sessions :
          (pc[s] = "admitting" /\ tac[0].pc = "false" /\ pc'[s] # "admitting") =>
             /\ written'.to = s
             /\ written'.msg = ErrorMsg("busy")
             /\ pc'[s] = "rejected"
             /\ ~subscribed'[s]
             /\ connection_count' = connection_count
             /\ users' = users
             /\ usernames' = usernames
             /\ next_user_id' = next_user_id
    /\ \A s \in Sessions : pc[s] = "rejected" => written'.to # s

C5_RejectedAtLimit == [][C5_Step]_vars

C5_Witness ==
    \E s \in Sessions :
       /\ pc[s] = "rejected"
       /\ written = [to |-> s, msg |-> ErrorMsg("busy"), ok |-> TRUE]
       /\ connection_count = MAX_CONNECTIONS

\* C6: while the server runs, the connection counter equals the number of admitted
\* sessions whose task has not finished, and it is never below zero.
C6_CounterCountsLiveSessions ==
    Alive =>
       /\ connection_count >= 0
       /\ connection_count =
             Cardinality({s \in Sessions :
                             pc[s] \notin {"unconnected", "admitting", "rejected",
                                           "closed"}})
             + (IF tac[0].pc = "true" THEN 1 ELSE 0)

\* one session has ended and given its slot back while another is active
C6_Witness ==
    /\ Alive
    /\ connection_count = 1
    /\ \E s, t \in Sessions : pc[s] = "closed" /\ pc[t] = "active"

\* C7: once the handler of a session that registered a user has returned, that user
\* is in neither map.
C7_DeregisteredOnReturn ==
    \A s \in Sessions :
       (pc[s] = "returned" /\ user_id[s] # 0) =>
          /\ user_id[s] \notin DOMAIN users
          /\ ~(username[s] \in DOMAIN usernames /\ usernames[username[s]] = user_id[s])

\* C8: a remove_user for an id that is in the users map takes it out and returns its
\* username; one for an id that is gone returns nothing and changes neither map, and
\* its caller publishes nothing; UserLeft is published at most once per id.
C8_Step ==
    /\ \A id \in DOMAIN leftPublished' : leftPublished'[id] <= 1
    /\ \A s \in Sessions :
          (pc[s] = "ru_remove" /\ pc'[s] # "ru_remove") =>
             IF user_id[s] \in DOMAIN users
               THEN /\ rmRes'[s] = RmSome(users[user_id[s]])
                    /\ user_id[s] \notin DOMAIN users'
               ELSE /\ rmRes'[s] = RmNone
                    /\ pc'[s] = "ru_none"
                    /\ users' = users
                    /\ usernames' = usernames
    /\ \A s \in Sessions :
          (pc[s] = "ru_none" /\ pc'[s] # "ru_none") =>
             /\ leftPublished' = leftPublished
             /\ users' = users
             /\ usernames' = usernames

C8_RemoveIdempotent == [][C8_Step]_vars

\* a second removal of an id whose UserLeft is out has returned nothing
C8_Witness ==
    \E s \in Sessions :
       /\ pc[s] = "ru_none"
       /\ user_id[s] \in DOMAIN leftPublished
       /\ leftPublished[user_id[s]] = 1

\* C9: an add_user that finds the name taken leaves the id generator as it was, and
\* the ids handed to successful joins are 1, 2, .. without a gap.
C9_Step ==
    /\ issued' = 1 .. (next_user_id' - 1)
    /\ \A s \in Sessions : user_id'[s] # 0 => user_id'[s] \in issued'
    /\ \A s \in Sessions :
          (pc[s] = "au_check" /\ pc'[s] = "au_none") =>
             next_user_id' = next_user_id /\ issued' = issued

C9_RejectedJoinConsumesNoId == [][C9_Step]_vars

\* a Join was rejected after two ids were handed out
C9_Witness ==
    /\ next_user_id = 3
    /\ \E s \in Sessions : pc[s] = "au_none" /\ user_id[s] = 0

\* C10 as stated: each add_user that returns Some(id) returns an id greater than
\* every id an add_user has returned before.
C10_ReturnedInIncreasingOrder ==
    [][\A s \in Sessions :
          (pc[s] = "au_insert" /\ pc'[s] = "au_some") =>
             LET inFlight == {user_id[t] : t \in {x \in Sessions :
                                                    pc[x] \in {"au_users", "au_insert"}}}
             IN  \A i \in issued \ inFlight : user_id[s] > i]_vars

\* C10 amended: no id is allocated twice, no two sessions have the same id, and each
\* successful add_user allocates an id greater than every id allocated before.
C10_Step ==
    /\ \A s \in Sessions :
          (pc[s] = "au_check" /\ pc'[s] = "au_users") =>
             /\ user_id'[s] \notin issued
             /\ \A i \in issued : user_id'[s] > i
    /\ \A s, t \in Sessions :
          (s # t /\ user_id'[s] # 0) => user_id'[s] # user_id'[t]
    /\ \A i \in DOMAIN users' : i \in issued'

C10_IdsUniqueAllocatedInOrder == [][C10_Step]_vars

\* the id allocated second has been returned while the first is still inside add_user
C10_Witness ==
    \E s, t \in Sessions :
       /\ pc[s] = "au_users"
       /\ pc[t] = "au_some"
       /\ user_id[s] # 0
       /\ user_id[t] > user_id[s]

\* C11: a session that leaves AwaitingJoin registers nothing and publishes nothing at
\* that step; it goes on to add_user only with a username that passed validate, and
\* otherwise returns without an id, having sent an Error (a failed receive sends
\* nothing).
C11_Step ==
    \A s \in Sessions :
       (pc[s] = "await_join" /\ pc'[s] # "await_join" /\ runPc' # "exited") =>
          /\ users' = users
          /\ usernames' = usernames
          /\ next_user_id' = next_user_id
          /\ \A t \in Sessions \ {s} : rxQueue'[t] = rxQueue[t]
          /\ IF pc'[s] = "au_lock"
               THEN Len(username'[s]) \in 1 .. MAX_USERNAME_LEN
               ELSE /\ pc'[s] = "returned"
                    /\ user_id'[s] = 0
                    /\ \/ written' = NoFrame
                       \/ written'.to = s /\ written'.msg.type = "Error"

C11_HandshakeFailureRegistersNothing == [][C11_Step]_vars

\* a Join with an invalid username was answered with an Error and the handler returned
C11_Witness ==
    \E s \in Sessions :
       /\ pc[s] = "returned"
       /\ user_id[s] = 0
       /\ username[s] = << >>
       /\ written = [to |-> s, msg |-> ErrorMsg("invalid username"), ok |-> TRUE]

\* C12: an add_user for a username that is in the usernames map returns None and
\* changes neither map nor the id generator; the handler then sends the Error,
\* publishes nothing and returns without an id.
C12_Step ==
    \A t \in Sessions :
       /\ (pc[t] = "au_check" /\ pc'[t] # "au_check" /\ runPc' # "exited"
             /\ username[t] \in DOMAIN usernames) =>
             /\ pc'[t] = "au_none"
             /\ user_id'[t] = 0
             /\ users' = users
             /\ usernames' = usernames
             /\ next_user_id' = next_user_id
       /\ (pc[t] = "au_none" /\ pc'[t] # "au_none" /\ runPc' # "exited") =>
             /\ pc'[t] = "returned"
             /\ written'.to = t
             /\ written'.msg.type = "Error"
             /\ users' = users
             /\ usernames' = usernames
             /\ \A u \in Sessions \ {t} : rxQueue'[u] = rxQueue[u]

C12_TakenNameRejected == [][C12_Step]_vars

\* the name is held by a user in both maps when the second Join is refused
C12_Witness ==
    \E t \in Sessions :
       /\ pc[t] = "returned"
       /\ user_id[t] = 0
       /\ written.to = t
       /\ written.msg = ErrorMsg("username taken")
       /\ \E i \in DOMAIN users : users[i] = username[t] /\ usernames[username[t]] = i

\* C14: no Chat event with a content longer than MAX_MESSAGE_LEN is ever published;
\* the step that answers such a Chat with the Error publishes nothing, and when the
\* Error is written the session stays in its loop.
C14_Step ==
    /\ \A t \in Sessions :
          \A k \in 1 .. Len(rxQueue'[t]) :
             rxQueue'[t][k].type = "Chat" => rxQueue'[t][k].content <= MAX_MESSAGE_LEN
    /\ \A s \in Sessions :
          (pc[s] = "active" /\ written'.to = s
             /\ written'.msg = ErrorMsg("invalid message")) =>
             /\ \A t \in Sessions \ {s} : rxQueue'[t] = rxQueue[t]
             /\ written'.ok => (pc'[s] = "active" /\ rxVars' = rxVars)
             /\ users' = users
             /\ usernames' = usernames

C14_LongChatRejected == [][C14_Step]_vars

C14_Witness ==
    \E s \in Sessions :
       /\ pc[s] = "active"
       /\ written = [to |-> s, msg |-> ErrorMsg("invalid message"), ok |-> TRUE]

\* C19: a step of one session's handler, its error exits and its teardown included,
\* leaves the accept loop and every other session where they are, and leaves the
\* registry entries of every other user unchanged.
C19_Step ==
    \A s \in Sessions :
       (pc'[s] # pc[s] /\ pc[s] \notin {"unconnected", "admitting"}
          /\ runPc' # "exited") =>
          /\ runPc' = runPc
          /\ \A t \in Sessions \ {s} : pc'[t] = pc[t]
          /\ \A i \in DOMAIN users :
                i # user_id[s] => (i \in DOMAIN users' /\ users'[i] = users[i])
          /\ \A u \in DOMAIN usernames :
                usernames[u] # user_id[s] =>
                   (u \in DOMAIN usernames' /\ usernames'[u] = usernames[u])

C19_SessionFailureIsLocal == [][C19_Step]_vars

\* one session has been torn down while another user is still registered and active
\* and the accept loop runs
C19_Witness ==
    \E s, t \in Sessions :
       /\ pc[s] = "returned"
       /\ rmRes[s].tag = "some"
       /\ pc[t] = "active"
       /\ user_id[t] \in DOMAIN users
       /\ usernames[username[t]] = user_id[t]
       /\ runPc = "select"

\* C20: a session never writes to its client an event published before its own Join
\* completed: when it writes an event of its queue, its own UserJoined is not still
\* behind that event.
C20_NoEventFromBeforeJoin ==
    [][\A s \in Sessions :
          (pc[s] = "active" /\ rxQueue[s] # << >> /\ written'.to = s
             /\ written'.msg = ToServerMessage(Head(rxQueue[s]))) =>
             ~ \E k \in 2 .. Len(rxQueue[s]) :
                  rxQueue[s][k] = [type |-> "UserJoined", username |-> username[s]]]_vars

\* C13: every username the server registers passes the rule of the client: it is not
\* empty, not longer than MAX_USERNAME_LEN, and made of ASCII letters, digits, '_'
\* and '-' only.
C13_RegisteredNamesPassClientRule ==
    \A u \in DOMAIN usernames : ValidateUsername(u)

\* C15: a session is never in its loop with more than HEARTBEAT_TIMEOUT passed since
\* it last read a message of its client, whatever events it delivered meanwhile.
C15_SilentSessionTimesOut ==
    \A s \in Sessions : pc[s] = "active" => silentFor[s] <= HeartbeatTicks

\* C16: a session that leaves its loop during a shutdown, its client connected and
\* silent, has written the Shutdown message at that step.
C16_ShutdownWrittenBeforeClose ==
    [][\A s \in Sessions :
          (pc[s] = "active" /\ pc'[s] # "active" /\ runPc' # "exited") =>
             (written'.to = s /\ written'.msg = [type |-> "Shutdown"])]_vars

\* C17: once the shutdown signal is sent, a session that waits for its Join can end
\* on its own, without a message of its client and without its timeout.
C17_AwaitingJoinCancelled ==
    \A s \in Sessions :
       (shutdown_flag /\ Alive /\ pc[s] = "await_join") => ENABLED QuietStep(s)

\* C18: once the drain loop is entered, run returns, also when a session never ends.
C18_DrainTerminates == (runPc = "drain") ~> (runPc = "exited")

\* the drain loop is polling while a session that will not end holds a slot
C18_Witness ==
    /\ runPc = "drain"
    /\ connection_count > 0
    /\ \E s \in Sessions : pc[s] = "await_join"

\* what broadcast_tx.send(ev) does to the receivers that exist
C21_Effect(ev) ==
    \A s \in Sessions :
       subscribed[s] =>
          /\ subscribed'[s]
          /\ IF Len(rxQueue[s]) < BroadcastCapacity
               THEN /\ rxQueue'[s] = Append(rxQueue[s], ev)
                    /\ rxLagged'[s] = rxLagged[s]
               ELSE /\ rxQueue'[s] = Append(Tail(rxQueue[s]), ev)
                    /\ rxLagged'[s]

C21_Step ==
    /\ \A s \in Sessions : Len(rxQueue'[s]) <= BroadcastCapacity
    /\ \A t \in Sessions :
          PublishJoined(t) => C21_Effect([type |-> "UserJoined", username |-> username[t]])
    /\ \A t \in Sessions, c \in InputContents :
          (ValidateChat(c) /\ RecvChat(t, c, TRUE)) =>
             C21_Effect([type |-> "Chat", username |-> username[t], content |-> c])
    /\ \A t \in Sessions :
          (HandlerCleanup(t) /\ rmRes[t].tag = "some") =>
             C21_Effect([type |-> "UserLeft", username |-> rmRes[t].username])
    /\ ShutdownBroadcast => C21_Effect([type |-> "Shutdown"])

\* the steps that publish are enabled whatever the receivers hold
C21_PublishersNeverWait ==
    /\ \A t \in Sessions : (Alive /\ pc[t] = "pub_joined") => ENABLED PublishJoined(t)
    /\ (Alive /\ runPc = "select") => ENABLED ShutdownBroadcast

\* C21: a publish is never held up by a receiver, no receiver holds more than the
\* channel's capacity of events, and a publish that finds a receiver holding that
\* many takes away its oldest event, keeps the rest and the new one, and marks it
\* as lagging.
C21_LaggingReceiverLosesOldest == []C21_PublishersNeverWait /\ [][C21_Step]_vars

\* a receiver that holds as many events as the channel keeps has lost one
C21_Witness ==
    \E s \in Sessions :
       /\ pc[s] = "active"
       /\ subscribed[s]
       /\ rxLagged[s]
       /\ Len(rxQueue[s]) = BroadcastCapacity

\* the messages that pass ClientMessage::validate and whose payload a frame holds;
\* with the program's MAX_FRAME_SIZE every message that passes validate is one, and
\* so is every ServerMessage the server builds
ValidMessage(msg) ==
    /\ CASE msg.type = "Join" -> ValidateJoin(msg.username)
         [] msg.type = "Chat" -> ValidateChat(Len(msg.content))
         [] OTHER -> TRUE
    /\ Len(Serialize(msg)) <= MAX_FRAME_SIZE

\* a read_frame call on end e has returned at this step
ReadReturned(e) == Len(wire'[e]) < Len(wire[e])

C22_Step ==
    \A e \in Ends :
       /\ \A msg \in Frames(e) :
             (WriteFrame(e, msg) /\ ValidMessage(msg)) =>
                /\ frameRes'[e].res.ok
                /\ Len(wire'[e]) = Len(wire[e]) + HEADER_SIZE + Len(Serialize(msg))
       /\ (ReadReturned(e) /\ sentFrames[e] # << >> /\ Head(sentFrames[e]).framed) =>
             /\ frameRes'[e].res = Ok(Head(sentFrames[e]).msg)
             /\ frameRes'[e].consumed = Head(sentFrames[e]).len
             /\ wire'[e] = SubSeq(wire[e], Head(sentFrames[e]).len + 1, Len(wire[e]))

\* C22: write_frame accepts every valid message, and read_frame on the bytes it wrote
\* returns that message and takes exactly those bytes from the stream.
C22_FrameRoundTrip == [][C22_Step]_vars

\* a ChatBroadcast was read back while the next frame waits in the stream
C22_Witness ==
    /\ frameRes["client"].op = "read_frame"
    /\ frameRes["client"].res.ok
    /\ frameRes["client"].res.val.type = "ChatBroadcast"
    /\ wire["client"] # << >>

C23_Step ==
    \A e \in Ends, msg \in ClientFrames \cup ServerFrames :
       (msg \in Frames(e) /\ WriteFrame(e, msg)
          /\ Len(Serialize(msg)) > MAX_FRAME_SIZE) =>
             /\ frameRes'[e].res = Err("FrameTooLarge")
             /\ wire' = wire

\* C23: write_frame of a message whose payload is larger than MAX_FRAME_SIZE returns
\* the frame-too-large error and leaves the stream as it was.
C23_OversizeNotWritten == [][C23_Step]_vars

\* an oversize message was refused while the stream held an earlier frame
C23_Witness ==
    /\ frameRes["server"].op = "write_frame"
    /\ ~frameRes["server"].res.ok
    /\ Len(Serialize(frameRes["server"].msg)) = MAX_FRAME_SIZE + 1
    /\ wire["server"] # << >>

\* the stream of end e starts with a header of the supported version whose length
\* field is larger than MAX_FRAME_SIZE
OversizeHeader(e) ==
    /\ Len(wire[e]) >= HEADER_SIZE
    /\ wire[e][1] = PROTOCOL_VERSION
    /\ from_be_bytes(SubSeq(wire[e], 2, 5)) > MAX_FRAME_SIZE

C26_Step ==
    \A e \in Ends :
       (ReadReturned(e) /\ OversizeHeader(e)) =>
          /\ frameRes'[e].res = Err("FrameTooLarge")
          /\ frameRes'[e].consumed = HEADER_SIZE
          /\ wire'[e] = SubSeq(wire[e], HEADER_SIZE + 1, Len(wire[e]))

\* C26: read_frame on a header whose length field exceeds MAX_FRAME_SIZE returns the
\* frame-too-large error having taken the 5 header bytes and nothing else.
C26_OversizeLengthRejected == [][C26_Step]_vars

\* the error was returned and the bytes after the header are still in the stream
C26_Witness ==
    /\ frameRes["server"].op = "read_frame"
    /\ frameRes["server"].res = Err("FrameTooLarge")
    /\ wire["server"] # << >>

\* the stream the session reads starts with a header of another version
ForeignHeader ==
    /\ Len(wire["server"]) >= HEADER_SIZE
    /\ wire["server"][1] # PROTOCOL_VERSION

C24_Step ==
    (ReadReturned("server") /\ ForeignHeader) =>
       /\ frameRes'["server"].res = Err("VersionMismatch")
       /\ pc[Reader] = "active"
       /\ pc'[Reader] = AfterBreak
       /\ ~subscribed'[Reader]
       /\ written' = NoFrame

\* after an error of read_frame the session is never in its loop again
C24_ErrorEndsSession == Failed("server") => pc[Reader] # "active"

\* C24: a frame of another version makes read_frame return the version-mismatch
\* error whatever its length field and payload are, and the session that read it
\* leaves its loop, cleans up and closes without reading or writing any more.
C24_VersionMismatchCloses == []C24_ErrorEndsSession /\ [][C24_Step]_vars

\* the session has closed after the version mismatch
C24_Witness ==
    /\ frameRes["server"].op = "read_frame"
    /\ frameRes["server"].res = Err("VersionMismatch")
    /\ pc[Reader] = "closed"

\* what the last call of validate was given, and whether it returned Ok
C27_Accepted == frameRes["server"].res.ok
C27_Message == frameRes["server"].msg

\* C27: validate returns Ok for a Join exactly when its username is non-empty and at
\* most MAX_USERNAME_LEN long, for a Chat exactly when its content is at most
\* MAX_MESSAGE_LEN long, and for every Leave and Ping.
C27_ValidateAcceptsExactly ==
    frameRes["server"].op = "validate" =>
       /\ C27_Message.type = "Join" =>
             (C27_Accepted <=> (Len(C27_Message.username) >= 1
                                /\ Len(C27_Message.username) <= MAX_USERNAME_LEN))
       /\ C27_Message.type = "Chat" =>
             (C27_Accepted <=> Len(C27_Message.content) <= MAX_MESSAGE_LEN)
       /\ C27_Message.type \in {"Leave", "Ping"} => C27_Accepted

\* a username of exactly MAX_USERNAME_LEN was accepted
C27_Witness ==
    /\ frameRes["server"].op = "validate"
    /\ C27_Message.type = "Join"
    /\ Len(C27_Message.username) = MAX_USERNAME_LEN
    /\ C27_Accepted

\* the usernames registered now
RegisteredNames == {users[i] : i \in DOMAIN users}

\* C25: every Welcome handed to send carries the session's user_id and the list of the
\* usernames registered at that moment.
C25_WelcomeListsOnlineUsers ==
    (written.to # 0 /\ written.msg.type = "Welcome") =>
       /\ written.msg.user_id = user_id[written.to]
       /\ "online_users" \in DOMAIN written.msg
       /\ written.msg.online_users = RegisteredNames

\* C28: the step in which an active session takes a Ping hands exactly one frame to
\* send, a Pong for its own client, publishes nothing, leaves the registry and the id
\* generator alone, and when the Pong is written the session is still in its loop.
C28_Step ==
    \A s \in Sessions, ok \in BOOLEAN :
       RecvPing(s, ok) =>
          /\ written'.to = s
          /\ written'.msg.type = "Pong"
          /\ \A t \in Sessions \ {s} : rxQueue'[t] = rxQueue[t]
          /\ mapVars' = mapVars
          /\ next_user_id' = next_user_id
          /\ user_id' = user_id
          /\ ok => (pc'[s] = "active" /\ rxVars' = rxVars)

C28_PingAnsweredWithPong == [][C28_Step]_vars

C28_Witness ==
    \E s \in Sessions :
       /\ pc[s] = "active"
       /\ written.to = s
       /\ written.msg.type = "Pong"
       /\ written.ok

\* C29: the step in which an active session takes a Join hands an Error to send for
\* its own client, keeps the session's user_id and username, leaves the registry and
\* the id generator as they were, publishes nothing, and when the Error is written the
\* session is still in its loop.
C29_Step ==
    \A s \in Sessions, ok \in BOOLEAN :
       RecvJoinAgain(s, ok) =>
          /\ written'.to = s
          /\ written'.msg.type = "Error"
          /\ user_id'[s] = user_id[s]
          /\ username'[s] = username[s]
          /\ users' = users
          /\ usernames' = usernames
          /\ next_user_id' = next_user_id
          /\ \A t \in Sessions \ {s} : rxQueue'[t] = rxQueue[t]
          /\ ok => (pc'[s] = "active" /\ rxVars' = rxVars)

C29_RepeatedJoinRejected == [][C29_Step]_vars

C29_Witness ==
    \E s \in Sessions :
       /\ pc[s] = "active"
       /\ written = [to |-> s, msg |-> ErrorMsg("already joined"), ok |-> TRUE]
       /\ user_id[s] \in DOMAIN users
       /\ users[user_id[s]] = username[s]

\* a Chat event waits in the receiver of session s, which is in its loop and has not
\* lagged
ChatQueued(s) ==
    /\ pc[s] = "active"
    /\ ~rxLagged[s]
    /\ \E k \in 1 .. Len(rxQueue[s]) : rxQueue[s][k].type = "Chat"

ChatWritten(s) == written.to = s /\ written.msg.type = "ChatBroadcast"

\* C30 as stated: a Chat event queued for a session that is in its loop and does not
\* lag is written to that session's client as a ChatBroadcast.
C30_WrittenToEveryActiveSession ==
    \A s \in Sessions : ChatQueued(s) ~> ChatWritten(s)

\* the step of session s's receiver: an event leaves it only as the frame written to
\* the client of s, or with the loop being left; a publish that finds it full takes
\* its oldest event
C30_Receiver(s) ==
    LET q == rxQueue[s]
        r == rxQueue'[s]
    IN  (pc[s] = "active" /\ pc'[s] = "active" /\ r # q) =>
           IF Len(r) < Len(q)
             THEN /\ r = Tail(q)
                  /\ written'.to = s
                  /\ written'.ok
                  /\ Head(q).type = "Chat" =>
                        written'.msg = [type |-> "ChatBroadcast",
                                        username |-> Head(q).username,
                                        content |-> Head(q).content]
             ELSE /\ written'.to # s
                  /\ \/ r = Append(q, r[Len(r)])
                     \/ r = Append(Tail(q), r[Len(r)]) /\ rxLagged'[s]

C30_Step ==
    /\ \A t \in Sessions, c \in InputContents :
          (ValidateChat(c) /\ RecvChat(t, c, TRUE)) =>
             \A s \in Sessions :
                pc[s] = "active" =>
                   /\ Len(rxQueue'[s]) = IF Len(rxQueue[s]) < BroadcastCapacity
                                           THEN Len(rxQueue[s]) + 1
                                           ELSE BroadcastCapacity
                   /\ rxQueue'[s][Len(rxQueue'[s])] =
                         [type |-> "Chat", username |-> username[t], content |-> c]
                   /\ \A k \in 1 .. (Len(rxQueue'[s]) - 1) :
                         rxQueue'[s][k] =
                            rxQueue[s][k + Len(rxQueue[s]) + 1 - Len(rxQueue'[s])]
    /\ \A s \in Sessions : C30_Receiver(s)

\* C30 (amended): a valid Chat taken by a session in its loop adds exactly one Chat
\* event to the receiver of every session in its loop, the sender's included; an
\* event leaves a receiver only as the frame written to that session's client
\* (a Chat event as the ChatBroadcast with its username and content), by overflow,
\* or with the session leaving its loop; and every receiver is emptied in the end.
C30_ChatReachesSessionsInLoop ==
    /\ [][C30_Step]_vars
    /\ \A s \in Sessions : (rxQueue[s] # << >>) ~> (rxQueue[s] = << >>)

\* the sender's own client has been written its Chat
C30_Witness ==
    \E s \in Sessions :
       /\ pc[s] = "active"
       /\ written.to = s
       /\ written.ok
       /\ written.msg.type = "ChatBroadcast"
       /\ written.msg.username = username[s]

\* session s is in both maps under its username and its user_id
Registered(s) ==
    /\ user_id[s] \in DOMAIN users
    /\ users[user_id[s]] = username[s]
    /\ username[s] \in DOMAIN usernames
    /\ usernames[username[s]] = user_id[s]

\* this step puts a new event of the given type at the end of the receiver of s
Appended(s, type) ==
    /\ rxQueue'[s] # rxQueue[s]
    /\ Len(rxQueue'[s]) >= Len(rxQueue[s])
    /\ rxQueue'[s] # << >>
    /\ rxQueue'[s][Len(rxQueue'[s])].type = type

NewestEvent(s) == rxQueue'[s][Len(rxQueue'[s])]

\* C32: a handler reaches the publish of its UserJoined only by the step that wrote
\* the Welcome to its own client, with its user registered; a UserJoined{u} put into
\* a receiver comes from the publish step of the handler registered as u; and that
\* handler leaves the publish position by this one step, into its loop.
C32_Step ==
    /\ \A t \in Sessions :
          (pc[t] # "pub_joined" /\ pc'[t] = "pub_joined") =>
             /\ written'.to = t
             /\ written'.msg.type = "Welcome"
             /\ written'.msg.user_id = user_id[t]
             /\ written'.ok
             /\ Registered(t)
    /\ \A s \in Sessions :
          Appended(s, "UserJoined") =>
             \E t \in Sessions :
                /\ pc[t] = "pub_joined"
                /\ pc'[t] = "active"
                /\ Registered(t)
                /\ NewestEvent(s).username = username[t]
    /\ \A t \in Sessions :
          (pc[t] = "pub_joined" /\ pc'[t] # "pub_joined" /\ runPc' # "exited") =>
             /\ pc'[t] = "active"
             /\ \A s \in Sessions :
                   subscribed[s] =>
                      /\ NewestEvent(s) = [type |-> "UserJoined", username |-> username[t]]
                      /\ Len(rxQueue'[s]) =
                            IF Len(rxQueue[s]) < BroadcastCapacity
                              THEN Len(rxQueue[s]) + 1 ELSE BroadcastCapacity

C32_RegisterWelcomeThenUserJoined == [][C32_Step]_vars

\* a handler has published its UserJoined and is in its loop; its own receiver
\* holds the event
C32_Witness ==
    \E t \in Sessions :
       /\ pc[t] = "active"
       /\ Registered(t)
       /\ \E k \in 1 .. Len(rxQueue[t]) :
             rxQueue[t][k] = [type |-> "UserJoined", username |-> username[t]]

\* a lagging session in its loop is registered and can take the Lagged result; a
\* session in its loop that does not lag can write the oldest event it holds
C33_LaggingSessionGoesOn ==
    \A s \in Sessions :
       (Alive /\ pc[s] = "active") =>
          /\ Registered(s)
          /\ rxLagged[s] => ENABLED BroadcastLagged(s)
          /\ (~rxLagged[s] /\ rxQueue[s] # << >>) => ENABLED BroadcastRecv(s, TRUE)

C33_Step ==
    \A s \in Sessions :
       BroadcastLagged(s) =>
          /\ pc'[s] = "active"
          /\ subscribed'[s]
          /\ ~rxLagged'[s]
          /\ rxQueue'[s] = rxQueue[s]
          /\ mapVars' = mapVars
          /\ user_id' = user_id
          /\ written' = NoFrame

\* C33: the step in which a session's loop gets Lagged from its receiver writes
\* nothing, leaves the session in its loop and registered and its receiver with the
\* events that were kept, which the loop then goes on writing.
C33_LagIsAbsorbed == []C33_LaggingSessionGoesOn /\ [][C33_Step]_vars

\* a session in its loop whose receiver overflowed
C33_Witness ==
    \E s \in Sessions :
       /\ pc[s] = "active"
       /\ rxLagged[s]
       /\ Len(rxQueue[s]) = BroadcastCapacity
       /\ Registered(s)

\* C39: a Chat event is put into a receiver only by a step of a session that is in
\* its loop, and it carries the username under which that session is registered.
C39_Step ==
    \A s \in Sessions :
       Appended(s, "Chat") =>
          \E t \in Sessions :
             /\ pc[t] = "active"
             /\ Registered(t)
             /\ NewestEvent(s).username = username[t]
             /\ inLeft' = inLeft - 1

C39_ChatOnlyFromJoinedUnderOwnName == [][C39_Step]_vars

\* a Chat event under the name of a registered session waits in a receiver
C39_Witness ==
    \E s, t \in Sessions :
       /\ rxQueue[s] # << >>
       /\ Head(rxQueue[s]).type = "Chat"
       /\ pc[t] = "active"
       /\ Registered(t)
       /\ Head(rxQueue[s]).username = username[t]

\* the positions inside add_user and remove_user
InRegistryCall(s) ==
    pc[s] \in {"au_lock", "au_check", "au_users", "au_insert",
               "ru_lock", "ru_remove", "ru_names", "ru_names_remove"}

RegistryCallReturned(s) == pc[s] \in {"au_some", "au_none", "ru_some", "ru_none"}

\* no call holds both registry locks
C38_OneLockAtATime ==
    \A s \in Sessions : ~(usersLock = s /\ usernamesLock = s)

\* C38: concurrent add_user and remove_user calls never hold both registry locks at
\* once, and every call that was started returns.
C38_RegistryCallsReturn ==
    /\ []C38_OneLockAtATime
    /\ \A s \in Sessions : InRegistryCall(s) ~> RegistryCallReturned(s)

\* one call waits for the users lock that a call of the other kind holds, while a
\* third holds the usernames lock
C38_Witness ==
    \E s, t \in Sessions :
       /\ pc[s] = "au_users"
       /\ pc[t] = "ru_remove"
       /\ usersLock = t
       /\ usernamesLock \notin {0, s, t}

FanoutTypes == {"ChatBroadcast", "UserJoined", "UserLeft", "Shutdown"}
ReplyTypes == {"Pong", "Error"}

\* entry i of the history is a frame of one of the given types written to session s
WriteAt(i, s, types) ==
    /\ trace[i].op = "write"
    /\ trace[i].to = s
    /\ trace[i].msg.type \in types

\* entry p of the history is the publish of the event that frame msg was made from
PublishOf(p, msg) ==
    /\ trace[p].op = "publish"
    /\ CASE msg.type = "ChatBroadcast" ->
               /\ trace[p].ev.type = "Chat"
               /\ trace[p].ev.username = msg.username
               /\ trace[p].ev.content = msg.content
         [] msg.type \in {"UserJoined", "UserLeft"} ->
               /\ trace[p].ev.type = msg.type
               /\ trace[p].ev.username = msg.username
         [] OTHER -> trace[p].ev.type = msg.type

\* the reply a request is answered with
ReplyTo(req) == IF req = "Ping" THEN "Pong" ELSE "Error"

IsTake(e) == e.op = "take"
IsReply(e) == e.op = "write" /\ e.msg.type \in ReplyTypes

\* the entries of the history that belong to session s
OfSession(s) ==
    LET Mine(e) == e.op \in {"take", "write"} /\ e.to = s
    IN  SelectSeq(trace, Mine)

\* C31: of two fanout events written to one client, the one written first was
\* published first; and the direct replies written to a client answer the requests
\* taken from its connection one by one, in the order in which they were taken.
C31_WritesKeepOrder ==
    \A s \in {Observed} :
       /\ \A i, j \in DOMAIN trace :
             (i < j /\ WriteAt(i, s, FanoutTypes) /\ WriteAt(j, s, FanoutTypes)) =>
                \E p, q \in DOMAIN trace :
                   /\ p < q
                   /\ p < i
                   /\ q < j
                   /\ PublishOf(p, trace[i].msg)
                   /\ PublishOf(q, trace[j].msg)
       /\ LET takes == SelectSeq(OfSession(s), IsTake)
              replies == SelectSeq(OfSession(s), IsReply)
          IN  /\ Len(replies) = Len(takes)
              /\ \A k \in DOMAIN takes : replies[k].msg.type = ReplyTo(takes[k].req)

\* two Chat events and a reply have been written to one client
C31_Witness ==
    \E s \in {Observed} :
       /\ \E i, j \in DOMAIN trace :
             /\ i < j
             /\ WriteAt(i, s, {"ChatBroadcast"})
             /\ WriteAt(j, s, {"ChatBroadcast"})
             /\ trace[i].msg.content # trace[j].msg.content
       /\ \E k \in DOMAIN trace : WriteAt(k, s, ReplyTypes)

\* C37: whenever the session's receive returns, it returns the oldest frame the
\* client sent completely that was not decoded yet, as the message that was sent;
\* and bytes the pending receive has taken from the stream stay with the session
\* until the receive returns.
C37_Step ==
    /\ Len(sentFrames'["server"]) < Len(sentFrames["server"]) =>
          frameRes'["server"].res = Ok(Head(sentFrames["server"]).msg)
    /\ (recvBuf # << >> /\ Len(sentFrames'["server"]) >= Len(sentFrames["server"])) =>
          Len(recvBuf') >= Len(recvBuf)

C37_FramesSurviveSelect == [][C37_Step]_vars

\* C34: the client's history never holds more than MAX_MESSAGES entries; adding an entry
\* to a full history removes exactly the oldest entry and nothing else; the entries kept
\* are in the order in which they arrived.
C34_Bounded ==
    /\ Len(messages) <= MAX_MESSAGES
    /\ \A i \in 1 .. (Len(messages) - 1) :
          ~messages[i].is_system => /\ ~messages[i + 1].is_system
                                    /\ messages[i + 1].content = messages[i].content + 1

C34_Step ==
    messages' # messages =>
       /\ Len(messages') >= 1
       /\ IF Len(messages) = MAX_MESSAGES
            THEN messages' = Tail(messages) \o <<messages'[Len(messages')]>>
            ELSE messages' = messages \o <<messages'[Len(messages')]>>

C34_HistoryBoundedOldestEvicted == []C34_Bounded /\ [][C34_Step]_vars

C34_Witness ==
    /\ Len(messages) = MAX_MESSAGES
    /\ ~messages[1].is_system
    /\ messages[1].content = 2
    /\ messages[MAX_MESSAGES].content = MAX_MESSAGES + 1

\* C35: only connect() in state Disconnected with a username that passes the client's
\* validation sends a Connect command; connect() with an invalid username sends nothing
\* and leaves the state Disconnected; connect() in Connecting or Connected changes
\* nothing; the state becomes Connected only from Connecting.
C35_ValidName(u) ==
    /\ Len(u) \in 1 .. MAX_USERNAME_LEN
    /\ \A i \in 1 .. Len(u) : u[i] \in AsciiAlphanumeric \cup {"_", "-"}

C35_Step ==
    /\ (Len(cmd_rx') > Len(cmd_rx) /\ cmd_rx'[Len(cmd_rx')].type = "Connect") =>
          /\ state = Disconnected
          /\ C35_ValidName(clientUsername)
          /\ cmd_rx'[Len(cmd_rx')].username = clientUsername
          /\ state' = Connecting
    /\ (Connect /\ state = Disconnected /\ ~C35_ValidName(clientUsername)) =>
          /\ cmd_rx' = cmd_rx
          /\ state' = Disconnected
    /\ (Connect /\ state # Disconnected) =>
          /\ cmd_rx' = cmd_rx
          /\ uiVars' = uiVars
    /\ (state'.tag = "Connected" /\ state.tag # "Connected") => state = Connecting

C35_ConnectOnlyFromDisconnected == [][C35_Step]_vars

C35_Witness ==
    /\ state.tag = "Connected"
    /\ attempts = MaxAttempts
    /\ \E i \in 1 .. Len(messages) : messages[i].content = <<"disconnected", "normal">>

\* C36: an attempt that ends has delivered ConnectFailed or Disconnected to the front
\* end by the time the network task waits for commands again; when nothing is left to
\* poll and no Connect is waiting, the state is Disconnected; and after every return of
\* connect_and_run the front end comes to a state Disconnected with no terminal event
\* left to poll.
C36_NoTerminalLeft ==
    /\ netPc \notin {"returned_ok", "returned_err"}
    /\ \A i \in 1 .. Len(event_rx) : event_rx[i].type \notin TerminalTypes

C36_Settled ==
    (/\ netPc = "idle"
     /\ event_rx = << >>
     /\ \A i \in 1 .. Len(cmd_rx) : cmd_rx[i].type # "Connect") => state = Disconnected

C36_Step ==
    (netPc # "idle" /\ netPc' = "idle") =>
       /\ event_rx' # << >>
       /\ event_rx'[Len(event_rx')].type \in TerminalTypes

C36_EndedAttemptReachesFrontEnd ==
    /\ []C36_Settled
    /\ [][C36_Step]_vars
    /\ (netPc \in {"returned_ok", "returned_err"}) ~> (C36_NoTerminalLeft /\ state = Disconnected)

C36_Witness ==
    /\ netPc = "idle"
    /\ event_rx = << >>
    /\ state = Disconnected
    /\ error_message = "None"
    /\ attempts = 1
    /\ cmd_rx = << >>
    /\ \E i \in 1 .. Len(messages) : messages[i].content = <<"disconnected", "error">>

\* C40: the network task sends at most one terminal event, ConnectFailed or
\* Disconnected, in one connection attempt.
C40_OneTerminalEventPerAttempt == terminals <= 1

====
